---- MODULE Spec2Model ----
(***************************************************************************)
(* A model of the ontology tool: the schema-conformance validator          *)
(* (src/src/core/validator.js), the query lexer (src/src/query/lexer.js),  *)
(* the bounded graph walk (src/src/cli/commands/graph.js) and the          *)
(* write/validate/rollback gate used by the mutating commands              *)
(* (src/src/core/safe-write.js and the command handlers).                  *)
(*                                                                         *)
(* Strings whose characters the code inspects (instance ids, relation      *)
(* names, query text) are sequences of one-character strings; an absent or *)
(* empty _id is the empty sequence, which is falsy in the source as well.  *)
(* A JavaScript object is an ordered map: a sequence of [k, v] entries in  *)
(* insertion order, the order Object.entries walks it.                     *)
(***************************************************************************)
EXTENDS Integers, Sequences, FiniteSets, TLC

VARIABLES
  schema,        \* validator input: data.schema
  instances,     \* validator input: data.instances.classes
  relations,     \* validator input: data.instances.relations
  rawDocuments,  \* validator input: data.rawDocuments (may be missing)
  report,        \* outcome of validate(data)
  wEdges,        \* graph command: data.instances.relations
  startId,       \* graph command: identifier
  maxDepth,      \* graph command: depth
  rows,          \* walkGraph: rows
  visited,       \* walkGraph: visited
  queue,         \* walkGraph: queue
  wPc,           \* walkGraph: position in the function
  input,         \* Lexer.input
  position,      \* Lexer.position
  tokens,        \* Lexer.tokens
  lPc,           \* Lexer.tokenize: position in the function
  fs,            \* storage directory: file path -> content or absent
  last,          \* outcome of the last mutating command / safeWrite call
  commands,      \* number of commands run on the storage so far
  calls,         \* safeWrite calls in progress: position and local variables
  ast,           \* findMatches: ast
  qClasses,      \* findMatches: instances.classes
  qRelations,    \* findMatches: instances.relations
  results,       \* findMatches: results
  qNext,         \* findMatches: index of the next class instance of the loop
  qPc,           \* findMatches: position in the function
  pTokens,       \* Parser.tokens
  pPosition,     \* Parser.position
  pResult,       \* outcome of parse(tokens)
  pPc            \* parse: position in the function

valVars == <<schema, instances, relations, rawDocuments, report>>
walkVars == <<wEdges, startId, maxDepth, rows, visited, queue, wPc>>
lexVars == <<input, position, tokens, lPc>>
storeVars == <<fs, last, commands, calls>>
queryVars == <<ast, qClasses, qRelations, results, qNext, qPc>>
parseVars == <<pTokens, pPosition, pResult, pPc>>
vars == <<valVars, walkVars, lexVars, storeVars, queryVars, parseVars>>

(***************************************************************************)
(* Generic helpers                                                         *)
(***************************************************************************)

\* All sequences over S of length at most n.
SeqUpTo(S, n) == UNION {[1..k -> S] : k \in 0..n}

RECURSIVE ConcatAll(_)
ConcatAll(ss) == IF ss = <<>> THEN <<>> ELSE Head(ss) \o ConcatAll(Tail(ss))

\* Ordered-map access (JavaScript object property lookup).
Has(m, key) == \E i \in 1..Len(m) : m[i].k = key
Get(m, key) == m[CHOOSE i \in 1..Len(m) : m[i].k = key].v

\* String.prototype.endsWith on character sequences.
EndsWith(s, suf) ==
  /\ Len(suf) <= Len(s)
  /\ SubSeq(s, Len(s) - Len(suf) + 1, Len(s)) = suf

\* key.split(':')[0]: the characters before the first colon.
RECURSIVE FirstSegment(_)
FirstSegment(s) ==
  IF s = <<>> \/ Head(s) = ":" THEN <<>> ELSE <<Head(s)>> \o FirstSegment(Tail(s))

\* Combine with the errors of a later step put before those of an earlier
\* one.
RECURSIVE CombineLatestFirst(_)
CombineLatestFirst(rs) ==
  IF rs = <<>> THEN [threw |-> FALSE, errors |-> <<>>]
  ELSE IF Head(rs).threw THEN [threw |-> TRUE, errors |-> Head(rs).errors]
  ELSE LET rest == CombineLatestFirst(Tail(rs))
       IN [threw |-> rest.threw, errors |-> rest.errors \o Head(rs).errors]

\* A run of steps that may throw: the errors pushed up to the first throw.
RECURSIVE Combine(_)
Combine(rs) ==
  IF rs = <<>> THEN [threw |-> FALSE, errors |-> <<>>]
  ELSE IF Head(rs).threw THEN [threw |-> TRUE, errors |-> Head(rs).errors]
  ELSE LET rest == Combine(Tail(rs))
       IN [threw |-> rest.threw, errors |-> Head(rs).errors \o rest.errors]

Ok(errs) == [threw |-> FALSE, errors |-> errs]
Threw == [threw |-> TRUE, errors |-> <<>>]

\* One entry of errors[] / warnings[]: the message template is `kind`, the
\* values interpolated into the message are `info`.
Issue(kind, source, instance, info) ==
  [kind |-> kind, source |-> source, instance |-> instance, info |-> info]

(***************************************************************************)
(* Validator: values, types and schema shapes                              *)
(***************************************************************************)

\* A property or qualifier value, by its JavaScript typeof ("date": a
\* native Date object); s is the text of a string whose characters the
\* code inspects.
Val(t) == [t |-> t, elems |-> <<>>, s |-> <<>>]
ArrayVal(elems) == [t |-> "array", elems |-> elems, s |-> <<>>]
StringVal(s) == [t |-> "string", elems |-> <<>>, s |-> s]
UndefinedValue == Val("undefined")

\* value === undefined || value === null
Missing(value) == value.t \in {"undefined", "null"}

\* A declared type tag: kind is the typeof of the `type` field of the
\* definition ("undefined" when the field is absent); a string tag is its
\* element type name plus whether it ends in "[]".
TypeTag(base, isArray) == [kind |-> "string", base |-> base, isArray |-> isArray]
NumberAsType == [kind |-> "number", base |-> "", isArray |-> FALSE]
NoType == [kind |-> "undefined", base |-> "", isArray |-> FALSE]

\* A property definition of a component; isNull is a definition written
\* as `name:` with nothing after it.
\* allowedList holds the non-blank string items of allowedTypes when it is
\* an array.
PropDef(type, required) ==
  [isNull |-> FALSE, type |-> type, required |-> required,
   allowedTypes |-> "undefined", allowedList |-> <<>>, uiHints |-> "undefined"]
NullPropDef ==
  [isNull |-> TRUE, type |-> NoType, required |-> FALSE,
   allowedTypes |-> "undefined", allowedList |-> <<>>, uiHints |-> "undefined"]
\* A ref or ref[] property, with allowedTypes when the list is not empty.
RefPropDef(isArray, required, allowedList) ==
  [PropDef(TypeTag("ref", isArray), required) EXCEPT
     !.allowedTypes = IF allowedList = <<>> THEN "undefined" ELSE "strings",
     !.allowedList = allowedList]

\* A relation definition of the schema.
RelDef(domain, range, cardinality) ==
  [isNull |-> FALSE, domain |-> domain, range |-> range,
   cardinality |-> cardinality, qualifiers |-> <<>>]

Entry(k, v) == [k |-> k, v |-> v]

(***************************************************************************)
(* parseCardinality, validateType                                          *)
(***************************************************************************)

Card(min, many, max) == [min |-> min, many |-> many, max |-> max]

\* parseCardinality with otm limited to one, as the comment above
\* validateCardinality describes it.
parseCardinalityOtmOne(cardinality) ==
  CASE cardinality = "oto" -> Card(1, FALSE, 1)
    [] cardinality = "otm" -> Card(1, FALSE, 1)
    [] cardinality = "mto" -> Card(0, FALSE, 1)
    [] cardinality = "mtm" -> Card(0, TRUE, 0)
    [] OTHER -> Card(0, TRUE, 0)

\* max is meaningful only when many is FALSE (max !== 'many').
parseCardinality(cardinality) ==
  CASE cardinality = "oto" -> Card(1, FALSE, 1)
    [] cardinality = "otm" -> Card(1, TRUE, 0)
    [] cardinality = "mto" -> Card(0, FALSE, 1)
    [] cardinality = "mtm" -> Card(0, TRUE, 0)
    [] OTHER -> Card(0, TRUE, 0)

TypeResult(threw, valid) == [threw |-> threw, valid |-> valid]

\* String.prototype.trim over the blanks of the model.
RECURSIVE TrimStart(_)
TrimStart(s) == IF s # <<>> /\ Head(s) = " " THEN TrimStart(Tail(s)) ELSE s
RECURSIVE TrimEnd(_)
TrimEnd(s) ==
  IF s # <<>> /\ s[Len(s)] = " " THEN TrimEnd(SubSeq(s, 1, Len(s) - 1)) ELSE s

\* A trim that leaves its argument as it is.
TrimNothing(s) == s

Trim(s) == TrimEnd(TrimStart(s))

\* /^[A-Za-z][A-Za-z0-9_]*$/ over the characters of the model.
RefLetters == {"a", "b", "c", "C", "D", "R"}
IsClassNameText(s) ==
  /\ s # <<>> /\ s[1] \in RefLetters
  /\ \A i \in 2..Len(s) : s[i] \in RefLetters \cup {"1", "_"}

\* trimmed.lastIndexOf(':'), counted from 0; -1 without a colon.
RECURSIVE lastIndexOf(_, _)
lastIndexOf(s, n) ==
  IF n = 0 THEN -1 ELSE IF s[n] = ":" THEN n - 1 ELSE lastIndexOf(s, n - 1)

\* parseTypedReference of a string: { valid, id, className }.
InvalidRef == [valid |-> FALSE, id |-> <<>>, className |-> <<>>]

\* The checks of the id and the class name sliced out of the reference.
TypedReference(id, className) ==
  IF id = <<>> THEN InvalidRef
  ELSE IF ~IsClassNameText(className) THEN InvalidRef
  ELSE [valid |-> TRUE, id |-> id, className |-> className]

\* The reference split at separatorIndex.
SplitReference(trimmed, separatorIndex) ==
  IF separatorIndex <= 0 \/ separatorIndex = Len(trimmed) - 1 THEN InvalidRef
  ELSE TypedReference(Trim(SubSeq(trimmed, 1, separatorIndex)),
                      Trim(SubSeq(trimmed, separatorIndex + 2, Len(trimmed))))

TrimmedReference(trimmed) ==
  IF trimmed = <<>> THEN InvalidRef
  ELSE SplitReference(trimmed, lastIndexOf(trimmed, Len(trimmed)))

parseTypedReference(text) == TrimmedReference(Trim(text))

\* The texts new Date(text) parses to a valid date, among those of the model.
ParsableDates == {<<"1">>}

ScalarTypeOk(value, base) ==
  CASE base = "string" -> value.t = "string"
    [] base = "bool" -> value.t = "boolean"
    [] base = "date" ->
         IF value.t = "string" THEN value.s \in ParsableDates
         ELSE value.t = "date"
    [] base = "ref" -> value.t = "string" /\ parseTypedReference(value.s).valid
    [] OTHER -> TRUE

\* type.endsWith throws a TypeError when `type` is not a string.
validateType(value, type) ==
  IF Missing(value) THEN TypeResult(FALSE, FALSE)
  ELSE IF type.kind # "string" THEN TypeResult(TRUE, FALSE)
  ELSE IF type.isArray THEN
    IF value.t # "array" THEN TypeResult(FALSE, FALSE)
    ELSE TypeResult(FALSE,
           \A i \in 1..Len(value.elems) :
              /\ ~Missing(value.elems[i])
              /\ ScalarTypeOk(value.elems[i], type.base))
  ELSE TypeResult(FALSE, ScalarTypeOk(value, type.base))

(***************************************************************************)
(* validateClassInstance                                                   *)
(***************************************************************************)

InstanceLabel(instance) == <<instance._class, instance._id>>

\* The names of the model that every object parsed from YAML inherits
\* from Object.prototype: obj[name] is a function, hence truthy, when the
\* object has no key of its own under the name.
ObjectPrototypeNames == {"constructor", "toString"}
Inherited(obj, name) == ~Has(obj, name) /\ name \in ObjectPrototypeNames

\* The component class name read under an inherited name: a function,
\* which names no component of the schema.
InheritedFunction == "function"

\* Keys allowed at the root of an instance.
reservedFields ==
  {"_class", "_id", "_namespace", "_source", "relations", "components"}

\* The text of a class name of the model.
ClassText(class) ==
  CASE class = "C" -> <<"C">> [] class = "D" -> <<"D">> [] OTHER -> <<"_">>

\* One iteration of the loop over refValues: a reference that does not
\* resolve, resolves to another class, or to a class that is not allowed.
ResolvedRefStep(instance, propDef, parsedRef, where, instancesById) ==
  IF ~parsedRef.valid
    THEN <<Issue("invalid-ref", instance._source, InstanceLabel(instance), where)>>
  ELSE IF ~Has(instancesById, parsedRef.id)
    THEN <<Issue("ref-not-found", instance._source, InstanceLabel(instance),
                 where)>>
  ELSE IF ClassText(Get(instancesById, parsedRef.id)._class) # parsedRef.className
    THEN <<Issue("ref-type-mismatch", instance._source, InstanceLabel(instance),
                 where)>>
  ELSE IF /\ propDef.allowedTypes \in {"strings", "badItems", "blankItems"}
          /\ propDef.allowedList # <<>>
          /\ \A i \in 1..Len(propDef.allowedList) :
               ClassText(propDef.allowedList[i]) # parsedRef.className
    THEN <<Issue("ref-not-allowed", instance._source, InstanceLabel(instance),
                 where)>>
  ELSE <<>>

RefStep(instance, localName, propName, propDef, rawRef, instancesById) ==
  ResolvedRefStep(instance, propDef, parseTypedReference(rawRef.s),
                  <<localName, propName>>, instancesById)

\* The reference checks of a property whose value passed validateType.
RefSteps(instance, localName, propName, propDef, value, instancesById) ==
  IF propDef.type.kind = "string" /\ propDef.type.base = "ref"
    THEN LET refValues == IF propDef.type.isArray THEN value.elems
                          ELSE <<value>>
         IN ConcatAll([i \in 1..Len(refValues) |->
                         RefStep(instance, localName, propName, propDef,
                                 refValues[i], instancesById)])
  ELSE <<>>

\* One iteration of the loop over the component's declared properties.
PropertyStep(instance, localName, componentValues, propName, propDef, instancesById) ==
  IF componentValues.isNull THEN Threw
  ELSE IF propDef.isNull THEN Threw
  ELSE
    LET value == IF Has(componentValues.props, propName)
                 THEN Get(componentValues.props, propName)
                 ELSE UndefinedValue
    IN IF propDef.required /\ Missing(value)
       THEN Ok(<<Issue("missing-required-property", instance._source,
                       InstanceLabel(instance), <<localName, propName>>)>>)
       ELSE IF ~Missing(value) /\ propDef.type.kind # "undefined"
       THEN LET result == validateType(value, propDef.type)
            IN IF result.threw THEN Threw
               ELSE IF ~result.valid
               THEN Ok(<<Issue("invalid-type", instance._source,
                               InstanceLabel(instance), <<localName, propName>>)>>)
               ELSE Ok(RefSteps(instance, localName, propName, propDef, value,
                                instancesById))
       ELSE Ok(<<>>)

\* The loop over Object.keys(componentValues): properties the component
\* does not declare.
UndeclaredPropertiesStep(instance, localName, componentValues, properties, componentClassName) ==
  IF componentValues.isNull THEN Threw
  ELSE
    LET keys == componentValues.props
        Declared(name) ==
          \/ Has(properties, name) /\ ~Get(properties, name).isNull
          \/ Inherited(properties, name)
    IN Ok(ConcatAll([i \in 1..Len(keys) |->
            IF Declared(keys[i].k) THEN <<>>
            ELSE <<Issue("undeclared-property", instance._source,
                         InstanceLabel(instance),
                         <<localName, keys[i].k, componentClassName>>)>>]))

\* One iteration of the loop over the instance's component blocks.
ComponentStep(instance, localName, componentValues, classComponents, componentSchemas, instancesById) ==
  IF Inherited(classComponents, localName)
  THEN Ok(<<Issue("component-class-undefined", instance._source,
                  InstanceLabel(instance), <<InheritedFunction, localName>>)>>)
  ELSE IF ~Has(classComponents, localName)
  THEN Ok(<<Issue("component-not-in-class", instance._source,
                  InstanceLabel(instance), <<localName, instance._class>>)>>)
  ELSE
    LET componentClassName == Get(classComponents, localName)
    IN IF ~Has(componentSchemas, componentClassName)
       THEN Ok(<<Issue("component-class-undefined", instance._source,
                       InstanceLabel(instance), <<componentClassName, localName>>)>>)
       ELSE
         LET properties == Get(componentSchemas, componentClassName).properties
         IN Combine([i \in 1..Len(properties) |->
                       PropertyStep(instance, localName, componentValues,
                                    properties[i].k, properties[i].v,
                                    instancesById)]
                    \o <<UndeclaredPropertiesStep(instance, localName, componentValues,
                                                  properties, componentClassName)>>)

\* Object.values(properties).some(p => p.required): throws on a null
\* definition met before the first required one.
RECURSIVE SomeRequired(_)
SomeRequired(properties) ==
  IF properties = <<>> THEN [threw |-> FALSE, some |-> FALSE]
  ELSE IF Head(properties).v.isNull THEN [threw |-> TRUE, some |-> FALSE]
  ELSE IF Head(properties).v.required THEN [threw |-> FALSE, some |-> TRUE]
  ELSE SomeRequired(Tail(properties))

\* One iteration of the loop over the class's components: a component
\* with a required property that the instance leaves out (or leaves null).
RequiredComponentStep(instance, instanceComponents, localName, componentClassName, componentSchemas) ==
  IF \/ Has(instanceComponents, localName)
        /\ ~Get(instanceComponents, localName).isNull
     \/ Inherited(instanceComponents, localName)
  THEN Ok(<<>>)
  ELSE IF ~Has(componentSchemas, componentClassName) THEN Ok(<<>>)
  ELSE
    LET hasRequired == SomeRequired(Get(componentSchemas, componentClassName).properties)
    IN IF hasRequired.threw THEN Threw
       ELSE IF hasRequired.some
       THEN Ok(<<Issue("missing-required-component", instance._source,
                       InstanceLabel(instance), <<localName, componentClassName>>)>>)
       ELSE Ok(<<>>)

validateClassInstance(instance, classSchema, componentSchemas, instancesById) ==
  LET classComponents == classSchema.components
      instanceComponents == instance.components
      rootErrors ==
        [i \in 1..Len(instance.rootKeys) |->
           IF instance.rootKeys[i] \in reservedFields THEN Ok(<<>>)
           ELSE Ok(<<Issue("root-property", instance._source,
                           InstanceLabel(instance), <<instance.rootKeys[i]>>)>>)]
      componentResults ==
        [i \in 1..Len(instanceComponents) |->
           ComponentStep(instance, instanceComponents[i].k, instanceComponents[i].v,
                         classComponents, componentSchemas, instancesById)]
      requiredResults ==
        [i \in 1..Len(classComponents) |->
           RequiredComponentStep(instance, instanceComponents, classComponents[i].k,
                                 classComponents[i].v, componentSchemas)]
  IN Combine(rootErrors \o componentResults \o requiredResults)

(***************************************************************************)
(* validateRelationInstance, validateRelationPlacement, validateCardinality*)
(***************************************************************************)

RelationLabel(relation) == <<relation._from, relation._relation, relation._to>>

\* QualifierStep without the type check of the value.
QualifierStepUnchecked(relation, qualName, qualDef) ==
  IF qualDef.isNull THEN Threw ELSE Ok(<<>>)

\* One iteration of the loop over the relation's declared qualifiers.
QualifierStep(relation, qualName, qualDef) ==
  IF qualDef.isNull THEN Threw
  ELSE
    LET value == IF Has(relation.quals, qualName)
                 THEN Get(relation.quals, qualName) ELSE UndefinedValue
    IN IF ~Missing(value) /\ qualDef.type.kind # "undefined"
       THEN LET result == validateType(value, qualDef.type)
            IN IF result.threw THEN Threw
               ELSE IF ~result.valid
               THEN Ok(<<Issue("qualifier-invalid-type", relation._source,
                               RelationLabel(relation), <<qualName>>)>>)
               ELSE Ok(<<>>)
       ELSE Ok(<<>>)

validateRelationInstance(relation, relationSchema, instancesById) ==
  LET source == relation._source
      label == RelationLabel(relation)
      hasFrom == Has(instancesById, relation._from)
      hasTo == Has(instancesById, relation._to)
      fromErrors ==
        IF ~hasFrom
        THEN <<Issue("missing-source", source, label, <<relation._from>>)>> ELSE <<>>
      toErrors ==
        IF ~hasTo
        THEN <<Issue("missing-target", source, label, <<relation._to>>)>> ELSE <<>>
      domainErrors ==
        IF hasFrom /\ relationSchema.domain # "" /\ relationSchema.domain # "*"
           /\ Get(instancesById, relation._from)._class # relationSchema.domain
        THEN <<Issue("domain-mismatch", source, label,
                     <<relation._from, Get(instancesById, relation._from)._class,
                       relationSchema.domain>>)>>
        ELSE <<>>
      rangeErrors ==
        IF hasTo /\ relationSchema.range # "" /\ relationSchema.range # "*"
           /\ Get(instancesById, relation._to)._class # relationSchema.range
        THEN <<Issue("range-mismatch", source, label,
                     <<relation._to, Get(instancesById, relation._to)._class,
                       relationSchema.range>>)>>
        ELSE <<>>
      qualifierResults ==
        [i \in 1..Len(relationSchema.qualifiers) |->
           QualifierStep(relation, relationSchema.qualifiers[i].k,
                         relationSchema.qualifiers[i].v)]
  IN Combine(<<Ok(fromErrors \o toErrors \o domainErrors \o rangeErrors)>>
             \o qualifierResults)

\* PlacementStep comparing against the file of the _to instance.
PlacementStepTarget(relation, instancesById) ==
  IF ~Has(instancesById, relation._to) THEN <<>>
  ELSE
    LET instanceSource == Get(instancesById, relation._to)._source
    IN IF relation._source # instanceSource
       THEN <<Issue("placement", relation._source, RelationLabel(relation),
                    <<relation._from, instanceSource>>)>>
       ELSE <<>>

\* One iteration of the placement loop.
PlacementStep(relation, instancesById) ==
  IF ~Has(instancesById, relation._from) THEN <<>>
  ELSE
    LET instanceSource == Get(instancesById, relation._from)._source
    IN IF relation._source # instanceSource
       THEN <<Issue("placement", relation._source, RelationLabel(relation),
                    <<relation._from, instanceSource>>)>>
       ELSE <<>>

validateRelationPlacement(rels, instancesById) ==
  ConcatAll([i \in 1..Len(rels) |-> PlacementStep(rels[i], instancesById)])

\* FromKey grouping by the target, as toCounts does.
ToKey(rel) == rel._to \o <<":">> \o rel._relation

\* `${rel._from}:${rel._relation}`
FromKey(rel) == rel._from \o <<":">> \o rel._relation

\* The Map fromCounts after the first loop: key -> {count, source}, in
\* insertion order, source being that of the first relation with the key.
RECURSIVE FromCounts(_, _)
FromCounts(rels, counts) ==
  IF rels = <<>> THEN counts
  ELSE
    LET key == FromKey(Head(rels))
        next ==
          IF Has(counts, key)
          THEN [i \in 1..Len(counts) |->
                  IF counts[i].k = key
                  THEN Entry(key, [count |-> counts[i].v.count + 1,
                                   source |-> counts[i].v.source])
                  ELSE counts[i]]
          ELSE Append(counts, Entry(key, [count |-> 1, source |-> Head(rels)._source]))
    IN FromCounts(Tail(rels), next)

\* The body of the loop over the declared relations.
CardinalityStep(relName, relSchema, fromCounts) ==
  IF relSchema.isNull THEN Threw
  ELSE
    LET card == parseCardinality(relSchema.cardinality)
    IN IF ~card.many
       THEN Ok(ConcatAll([i \in 1..Len(fromCounts) |->
                 IF EndsWith(fromCounts[i].k, <<":">> \o relName)
                    /\ fromCounts[i].v.count > card.max
                 THEN <<Issue("cardinality", fromCounts[i].v.source,
                              FirstSegment(fromCounts[i].k),
                              <<FirstSegment(fromCounts[i].k), fromCounts[i].v.count,
                                relName, card.max>>)>>
                 ELSE <<>>]))
       ELSE Ok(<<>>)

validateCardinality(rels, relationSchemas) ==
  LET fromCounts == FromCounts(rels, <<>>)
  IN Combine([i \in 1..Len(relationSchemas) |->
                CardinalityStep(relationSchemas[i].k, relationSchemas[i].v, fromCounts)])

(***************************************************************************)
(* Document-level and schema-level checks                                  *)
(***************************************************************************)

\* The distinct sources of the raw documents, in order of first appearance
\* (the insertion order of the Maps keyed by source).
RECURSIVE SourcesOf(_, _)
SourcesOf(docs, seen) ==
  IF docs = <<>> THEN seen
  ELSE SourcesOf(Tail(docs),
                 IF \E i \in 1..Len(seen) : seen[i] = Head(docs).source
                 THEN seen ELSE Append(seen, Head(docs).source))

DocsOfFile(docs, source) == SelectSeq(docs, LAMBDA d : d.source = source)

DocumentErrors(doc, source, label) ==
  (IF doc.apiVersion # "agent/v1"
   THEN <<Issue(IF doc.apiVersion = "" THEN "missing-apiVersion" ELSE "invalid-apiVersion",
                source, label, <<doc.apiVersion>>)>>
   ELSE <<>>)
  \o
  (IF doc.kind # "Ontology"
   THEN <<Issue(IF doc.kind = "" THEN "missing-kind" ELSE "invalid-kind",
                source, label, <<doc.kind>>)>>
   ELSE <<>>)

validateDocuments(docs) ==
  LET sources == SourcesOf(docs, <<>>)
      FileErrors(source) ==
        LET mine == DocsOfFile(docs, source)
        IN ConcatAll([i \in 1..Len(mine) |->
                        DocumentErrors(mine[i], source,
                                       IF Len(mine) > 1 THEN <<"document", i>>
                                       ELSE <<"document">>)])
           \o (IF \E i \in 1..Len(mine) : mine[i].hasSchema \/ mine[i].hasSpec
               THEN <<>>
               ELSE <<Issue("no-schema-or-spec", source, <<"file">>, <<>>)>>)
  IN ConcatAll([i \in 1..Len(sources) |-> FileErrors(sources[i])])

validateNoTopLevelRelations(docs) ==
  ConcatAll([i \in 1..Len(docs) |->
    IF docs[i].specRelations
    THEN <<Issue("top-level-relations", docs[i].source, <<"spec.relations">>, <<>>)>>
    ELSE <<>>])

\* doc.targets lists the relation targets of the document's instances with
\* the shape of each: a string, an object with _to, an object with
\* _id/_class, another object, or anything else.
validateRelationTargetFormat(docs) ==
  ConcatAll([i \in 1..Len(docs) |->
    ConcatAll([j \in 1..Len(docs[i].targets) |->
      LET t == docs[i].targets[j]
      IN CASE t.shape \in {"string", "withTo"} -> <<>>
           [] t.shape = "idOrClass" ->
                <<Issue("target-has-id-or-class", docs[i].source, t.label, <<t.relation, t.index>>)>>
           [] t.shape = "object" ->
                <<Issue("target-without-to", docs[i].source, t.label, <<t.relation, t.index>>)>>
           [] OTHER ->
                <<Issue("target-not-string-or-object", docs[i].source, t.label, <<t.relation, t.index>>)>>])])

\* The names of the model that match /^[A-Z][a-zA-Z0-9]*$/, /^[a-z][a-zA-Z0-9]*$/
\* and the characters a name matching /^[A-Z][A-Z0-9_]*$/ is made of.
ProperCaseNames == {"Naming", "Tagging", "C", "D"}
CamelCaseNames == {"naming", "name", "tags", "other", "since"}
UpperGlyphs == {"R", "S", "LINKS_TO"}

isProperCase(name) == name \in ProperCaseNames
isCamelCase(name) == name \in CamelCaseNames
isUppercaseUnderscored(name) ==
  name # <<>> /\ \A i \in 1..Len(name) : name[i] \in UpperGlyphs

validateSchemaNames(sch) ==
  ConcatAll([i \in 1..Len(sch.components) |->
    (IF isProperCase(sch.components[i].k) THEN <<>>
     ELSE <<Issue("component-name", "schema", <<"component", sch.components[i].k>>, <<>>)>>)
    \o
    ConcatAll([j \in 1..Len(sch.components[i].v.properties) |->
      IF isCamelCase(sch.components[i].v.properties[j].k) THEN <<>>
      ELSE <<Issue("property-name", "schema",
                   <<sch.components[i].k, sch.components[i].v.properties[j].k>>, <<>>)>>])])
  \o
  ConcatAll([i \in 1..Len(sch.classes) |->
    (IF isProperCase(sch.classes[i].k) THEN <<>>
     ELSE <<Issue("class-name", "schema", <<"class", sch.classes[i].k>>, <<>>)>>)
    \o
    ConcatAll([j \in 1..Len(sch.classes[i].v.components) |->
      IF isCamelCase(sch.classes[i].v.components[j].k) THEN <<>>
      ELSE <<Issue("local-name", "schema",
                   <<sch.classes[i].k, sch.classes[i].v.components[j].k>>, <<>>)>>])])
  \o
  ConcatAll([i \in 1..Len(sch.relations) |->
    (IF isUppercaseUnderscored(sch.relations[i].k) THEN <<>>
     ELSE <<Issue("relation-name", "schema", <<"relation", sch.relations[i].k>>, <<>>)>>)
    \o
    (IF sch.relations[i].v.isNull THEN <<>>
     ELSE ConcatAll([j \in 1..Len(sch.relations[i].v.qualifiers) |->
            IF isCamelCase(sch.relations[i].v.qualifiers[j].k) THEN <<>>
            ELSE <<Issue("qualifier-name", "schema",
                         <<sch.relations[i].k, sch.relations[i].v.qualifiers[j].k>>, <<>>)>>]))])

\* allowedTypes / uiHints of a definition: "undefined", "notArray",
\* "badItems" (an array with an item that is not a string), "blankItems"
\* (an array of strings, one of them blank), "empty" ([]) or "strings" (a
\* non-empty array of non-blank strings).
NotStringArray == {"notArray", "badItems", "blankItems"}

\* MetadataStep that reports an empty allowedTypes too.
MetadataStepNonEmpty(componentName, propName, propDef) ==
  IF propDef.isNull THEN Threw
  ELSE
    LET location == <<componentName, propName>>
        isRef == propDef.type.kind = "string" /\ propDef.type.base = "ref"
    IN Ok((IF propDef.allowedTypes # "undefined"
           THEN IF ~isRef
                THEN <<Issue("allowedTypes-not-ref", "schema", location, <<>>)>>
                ELSE IF propDef.allowedTypes \in NotStringArray \cup {"empty"}
                THEN <<Issue("allowedTypes-not-string-array", "schema", location, <<>>)>>
                ELSE <<>>
           ELSE <<>>)
          \o
          (IF propDef.uiHints \in NotStringArray
           THEN <<Issue("uiHints-not-string-array", "schema", location, <<>>)>>
           ELSE <<>>))

MetadataStep(componentName, propName, propDef) ==
  IF propDef.isNull THEN Threw
  ELSE
    LET location == <<componentName, propName>>
        isRef == propDef.type.kind = "string" /\ propDef.type.base = "ref"
    IN Ok((IF propDef.allowedTypes # "undefined"
           THEN IF ~isRef
                THEN <<Issue("allowedTypes-not-ref", "schema", location, <<>>)>>
                ELSE IF propDef.allowedTypes \in NotStringArray
                THEN <<Issue("allowedTypes-not-string-array", "schema", location, <<>>)>>
                ELSE <<>>
           ELSE <<>>)
          \o
          (IF propDef.uiHints \in NotStringArray
           THEN <<Issue("uiHints-not-string-array", "schema", location, <<>>)>>
           ELSE <<>>))

validateSchemaPropertyMetadata(sch) ==
  Combine(ConcatAll([i \in 1..Len(sch.components) |->
    [j \in 1..Len(sch.components[i].v.properties) |->
       MetadataStep(sch.components[i].k, sch.components[i].v.properties[j].k,
                    sch.components[i].v.properties[j].v)]]))

validateSingleClassInstancePerFile(docs) ==
  LET sources == SourcesOf(docs, <<>>)
      RECURSIVE Sum(_)
      Sum(ds) == IF ds = <<>> THEN 0 ELSE Head(ds).classCount + Sum(Tail(ds))
      Count(source) == Sum(DocsOfFile(docs, source))
  IN ConcatAll([i \in 1..Len(sources) |->
       IF Count(sources[i]) > 1
       THEN <<Issue("many-instances-in-file", sources[i], <<"spec.classes">>,
                    <<Count(sources[i])>>)>>
       ELSE <<>>])

(***************************************************************************)
(* validate                                                                *)
(***************************************************************************)

LINKS_TO == <<"LINKS_TO">>
implicitLinksToSchema == RelDef("*", "*", "mtm")

\* IndexStep with firstSeenById overwritten by every instance, so that a
\* duplicate is reported against the previous file with the id.
IndexStepLastSeen(acc, instance) ==
  IF instance._id # <<>>
  THEN
    LET seen == Has(acc.firstSeenById, instance._id)
        record == Entry(instance._id, [source |-> instance._source,
                                       className |-> instance._class])
    IN [errors |->
          IF seen
          THEN Append(acc.errors,
                 Issue("duplicate-id", instance._source, InstanceLabel(instance),
                       <<instance._id, Get(acc.firstSeenById, instance._id).source>>))
          ELSE acc.errors,
        firstSeenById |->
          IF seen
          THEN [i \in 1..Len(acc.firstSeenById) |->
                  IF acc.firstSeenById[i].k = instance._id THEN record
                  ELSE acc.firstSeenById[i]]
          ELSE Append(acc.firstSeenById, record),
        instancesById |->
          IF Has(acc.instancesById, instance._id) THEN acc.instancesById
          ELSE Append(acc.instancesById, Entry(instance._id, instance))]
  ELSE acc

\* One iteration of the loop that builds instancesById and firstSeenById
\* and reports duplicate ids.  An instance whose _id is falsy is skipped.
IndexStep(acc, instance) ==
  IF instance._id # <<>>
  THEN
    LET seen == Has(acc.firstSeenById, instance._id)
    IN [errors |->
          IF seen
          THEN Append(acc.errors,
                 Issue("duplicate-id", instance._source, InstanceLabel(instance),
                       <<instance._id, Get(acc.firstSeenById, instance._id).source>>))
          ELSE acc.errors,
        firstSeenById |->
          IF seen THEN acc.firstSeenById
          ELSE Append(acc.firstSeenById,
                      Entry(instance._id, [source |-> instance._source,
                                           className |-> instance._class])),
        instancesById |->
          IF Has(acc.instancesById, instance._id) THEN acc.instancesById
          ELSE Append(acc.instancesById, Entry(instance._id, instance))]
  ELSE acc

RECURSIVE IndexInstances(_, _)
IndexInstances(classes, acc) ==
  IF classes = <<>> THEN acc
  ELSE IndexInstances(Tail(classes), IndexStep(acc, Head(classes)))

\* ClassInstanceStep without the `continue` after the class-not-defined
\* error: the blocks are then checked against a class without components.
ClassInstanceStepFallThrough(sch, instance, instancesById) ==
  IF ~Has(sch.classes, instance._class)
  THEN Ok(<<Issue("class-not-defined", instance._source, InstanceLabel(instance),
                  <<instance._class>>)>>
          \o [i \in 1..Len(instance.components) |->
                Issue("component-not-in-class", instance._source,
                      InstanceLabel(instance),
                      <<instance.components[i].k, instance._class>>)])
  ELSE validateClassInstance(instance, Get(sch.classes, instance._class), sch.components,
                             instancesById)

\* One iteration of the loop over instances.classes.
ClassInstanceStep(sch, instance, instancesById) ==
  IF ~Has(sch.classes, instance._class)
  THEN Ok(<<Issue("class-not-defined", instance._source, InstanceLabel(instance),
                  <<instance._class>>)>>)
  ELSE validateClassInstance(instance, Get(sch.classes, instance._class), sch.components,
                             instancesById)

\* One iteration of the loop over instances.relations.
RelationInstanceStep(sch, relation, instancesById) ==
  LET relationType == relation._relation
      declared == Has(sch.relations, relationType)
                  /\ ~Get(sch.relations, relationType).isNull
  IN IF relationType # LINKS_TO /\ ~declared
     THEN Ok(<<Issue("relation-not-defined", relation._source, RelationLabel(relation),
                     <<relationType>>)>>)
     ELSE validateRelationInstance(
            relation,
            IF relationType = LINKS_TO THEN implicitLinksToSchema
            ELSE Get(sch.relations, relationType),
            instancesById)

Report(state, errors, warnings, data) ==
  [state |-> state, valid |-> errors = <<>>, errors |-> errors, warnings |-> warnings,
   counts |-> [classes |-> Len(data.instances.classes),
               relations |-> Len(data.instances.relations)]]

NoReport ==
  [state |-> "none", valid |-> FALSE, errors |-> <<>>, warnings |-> <<>>,
   counts |-> [classes |-> 0, relations |-> 0]]

\* validate(data): state is "returned" with the report, or "threw" when an
\* exception left the function (no report reaches the caller).
validate(data) ==
  LET sch == data.schema
      classes == data.instances.classes
      rels == data.instances.relations
      docs == IF data.rawDocuments.present THEN data.rawDocuments.docs ELSE <<>>
      reserved ==
        IF Has(sch.relations, LINKS_TO) /\ ~Get(sch.relations, LINKS_TO).isNull
        THEN <<Issue("links-to-reserved", "schema", <<"relation", LINKS_TO>>, <<>>)>>
        ELSE <<>>
      index == IndexInstances(classes,
                 [errors |-> <<>>, firstSeenById |-> <<>>, instancesById |-> <<>>])
      run ==
        Combine(
          <<Ok(reserved),
            Ok(validateDocuments(docs)),
            Ok(validateNoTopLevelRelations(docs)),
            Ok(validateRelationTargetFormat(docs)),
            validateSchemaPropertyMetadata(sch),
            Ok(validateSingleClassInstancePerFile(docs)),
            Ok(index.errors)>>
          \o [i \in 1..Len(classes) |->
                ClassInstanceStep(sch, classes[i], index.instancesById)]
          \o [i \in 1..Len(rels) |->
                RelationInstanceStep(sch, rels[i], index.instancesById)]
          \o <<Ok(validateRelationPlacement(rels, index.instancesById)),
               validateCardinality(rels, sch.relations)>>)
  IN IF run.threw THEN Report("threw", <<>>, <<>>, data)
     ELSE Report("returned", run.errors, validateSchemaNames(sch), data)

(***************************************************************************)
(* Validator inputs                                                        *)
(***************************************************************************)

MaxInstances == 3
MaxEdges == 2
MaxBadInstances == 2

IdA == <<"a">>
IdB == <<"b">>
IdAR == <<"a", ":", "R">>
NoId == <<>>
RelR == <<"R">>
RelS == <<"S">>
F1 == "C/a.md"
F2 == "D/b.md"
Codes == {"oto", "otm", "mto", "mtm"}

NamingDef(nameDef) == [properties |-> <<Entry("name", nameDef)>>]

SchemaOf(nameDef, relations_) ==
  [components |-> <<Entry("Naming", NamingDef(nameDef))>>,
   classes |-> <<Entry("C", [components |-> <<Entry("naming", "Naming")>>]),
                 Entry("D", [components |-> <<>>])>>,
   relations |-> relations_]

Block(props) == [isNull |-> FALSE, props |-> props]
NullBlock == [isNull |-> TRUE, props |-> <<>>]

Inst(id, cls, source, components) ==
  [_id |-> id, _class |-> cls, _source |-> source, rootKeys |-> <<>>,
   components |-> components]

\* The components a conforming instance of the class carries.
GoodComponents(cls) ==
  IF cls = "C" THEN <<Entry("naming", Block(<<Entry("name", Val("string"))>>))>>
  ELSE <<>>

Edge(from, rel, to, source) ==
  [_from |-> from, _relation |-> rel, _to |-> to, _source |-> source, quals |-> <<>>]

\* What the loader records for the files the instances come from: the
\* schema file, then one document per instance file.
RECURSIVE InstanceSources(_, _)
InstanceSources(classes, seen) ==
  IF classes = <<>> THEN seen
  ELSE InstanceSources(Tail(classes),
         IF \E i \in 1..Len(seen) : seen[i] = Head(classes)._source
         THEN seen ELSE Append(seen, Head(classes)._source))

Doc(source, hasSchema, classCount) ==
  [source |-> source, apiVersion |-> "agent/v1", kind |-> "Ontology",
   hasSchema |-> hasSchema, hasSpec |-> ~hasSchema, specRelations |-> FALSE,
   classCount |-> classCount, targets |-> <<>>]

RawDocumentsOf(classes) ==
  LET sources == InstanceSources(classes, <<>>)
  IN [present |-> TRUE,
      docs |-> <<Doc("schema.yml", TRUE, 0)>>
               \o [i \in 1..Len(sources) |->
                     Doc(sources[i], FALSE,
                         Len(SelectSeq(classes, LAMBDA c : c._source = sources[i])))]]

Data == [schema |-> schema,
         instances |-> [classes |-> instances, relations |-> relations],
         rawDocuments |-> rawDocuments]

StringType == TypeTag("string", FALSE)

WellFormedSchema(codeR) ==
  SchemaOf(PropDef(StringType, TRUE),
           <<Entry(RelR, RelDef("*", "*", codeR)),
             Entry(RelS, RelDef("C", "*", "mto"))>>)

\* Instances that differ in id (or lack one), class and file.
IdInstances ==
  {Inst(id, cls, source, GoodComponents(cls)) :
     id \in {IdA, IdB, NoId}, cls \in {"C", "D"}, source \in {F1, F2}}

\* Instance lists the edges are laid over: two distinct instances, two
\* sharing an id (and b absent), an id with a colon, an instance without id.
EdgeInstanceLists ==
  {<<Inst(IdA, "C", F1, GoodComponents("C")), Inst(IdB, "D", F2, <<>>)>>,
   <<Inst(IdA, "C", F1, GoodComponents("C")), Inst(IdA, "D", F2, <<>>)>>,
   <<Inst(IdA, "C", F1, GoodComponents("C")), Inst(IdAR, "D", F2, <<>>)>>,
   <<Inst(NoId, "C", F1, GoodComponents("C")), Inst(IdB, "D", F2, <<>>)>>}

EdgeDomain ==
  {Edge(from, rel, to, source) :
     from \in {IdA, IdB, IdAR}, rel \in {RelR, RelS}, to \in {IdA, IdB},
     source \in {F1, F2}}

(***************************************************************************)
(* Query values: AST nodes of the evaluator and of the parser              *)
(* (src/src/query/parser.js)                                               *)
(***************************************************************************)

\* A JavaScript value that is a string, null or undefined; a string is a
\* sequence of one-character strings.
Null == [kind |-> "null", s |-> <<>>]
Undefined == [kind |-> "undefined", s |-> <<>>]
Str(s) == [kind |-> "str", s |-> s]

\* The fields of a leaf of the evaluator's AST (ClassMatchNode and
\* RelationMatchNode); a node of one kind leaves the other kind's fields null.
NoLeaf ==
  [id |-> Null, className |-> Null, property |-> Null, value |-> Null,
   fromId |-> Null, fromClass |-> Null, relationType |-> Null,
   qualifier |-> Null]

ClassMatch(id, className, property, value) ==
  [type |-> "CLASS_MATCH", kids |-> <<>>,
   leaf |-> [NoLeaf EXCEPT !.id = id, !.className = className,
                           !.property = property, !.value = value]]

RelationMatch(fromId, fromClass, relationType, qualifier, value) ==
  [type |-> "RELATION_MATCH", kids |-> <<>>,
   leaf |-> [NoLeaf EXCEPT !.fromId = fromId, !.fromClass = fromClass,
                           !.relationType = relationType,
                           !.qualifier = qualifier, !.value = value]]

\* { type: 'AND' | 'OR', left, right } and { type: 'NOT', operand }: kids
\* holds left and right, or the operand.
And(left, right) == [type |-> "AND", kids |-> <<left, right>>, leaf |-> NoLeaf]
Or(left, right) == [type |-> "OR", kids |-> <<left, right>>, leaf |-> NoLeaf]
Not(operand) == [type |-> "NOT", kids |-> <<operand>>, leaf |-> NoLeaf]

\* Outcome of parse(tokens): not run, an AST returned, or a SyntaxError
\* thrown with its message's position (-1 when the message has none).
NoMatch == [field |-> Null, value |-> <<>>, matchType |-> "exact"]
NoNode == [type |-> "none", kids |-> <<>>, match |-> NoMatch]
NoParse == [state |-> "none", node |-> NoNode, at |-> -1]

(***************************************************************************)
(* Idle values of the variables a specification does not use               *)
(***************************************************************************)

WalkIdle ==
  /\ wEdges = <<>> /\ startId = <<>> /\ maxDepth = 0
  /\ rows = <<>> /\ visited = {} /\ queue = <<>> /\ wPc = "idle"

LexIdle == input = <<>> /\ position = 0 /\ tokens = <<>> /\ lPc = "idle"

NoCommand ==
  [cmd |-> "none", id |-> <<>>, path |-> "", wrote |-> "none", isNew |-> FALSE,
   valid |-> TRUE, threw |-> FALSE, content |-> <<>>, before |-> <<>>]

StoreIdle == fs = <<>> /\ last = NoCommand /\ commands = 0 /\ calls = <<>>

QueryIdle ==
  /\ ast = ClassMatch(Null, Null, Null, Null) /\ qClasses = <<>>
  /\ qRelations = <<>> /\ results = <<>> /\ qNext = 0 /\ qPc = "idle"

ParseIdle ==
  /\ pTokens = <<>> /\ pPosition = 0 /\ pResult = NoParse /\ pPc = "idle"

ValidatorIdle ==
  /\ schema = WellFormedSchema("mtm") /\ instances = <<>> /\ relations = <<>>
  /\ rawDocuments = RawDocumentsOf(<<>>) /\ report = NoReport

(***************************************************************************)
(* The validate command on well-formed models                              *)
(***************************************************************************)

InitIds ==
  /\ schema = WellFormedSchema("oto")
  /\ instances \in SeqUpTo(IdInstances, MaxInstances)
  /\ relations = <<>>

InitEdges ==
  /\ \E codeR \in Codes : schema = WellFormedSchema(codeR)
  /\ instances \in EdgeInstanceLists
  /\ relations \in SeqUpTo(EdgeDomain, MaxEdges)

InitValidate ==
  /\ (InitIds \/ InitEdges)
  /\ rawDocuments = RawDocumentsOf(instances)
  /\ report = NoReport
  /\ WalkIdle /\ LexIdle /\ StoreIdle
  /\ QueryIdle /\ ParseIdle

\* validate(await loadAll()) of the validate command.
Validate ==
  /\ report.state = "none"
  /\ report' = validate(Data)
  /\ UNCHANGED <<schema, instances, relations, rawDocuments>>
  /\ UNCHANGED <<walkVars, lexVars, storeVars, queryVars, parseVars>>

SpecValidate == InitValidate /\ [][Validate]_vars

(***************************************************************************)
(* Properties of the validation report                                     *)
(***************************************************************************)

Min(S) == CHOOSE m \in S : \A n \in S : m <= n
ErrorsOfKind(kind) == SelectSeq(report.errors, LAMBDA e : e.kind = kind)
WithId(x) == {i \in 1..Len(instances) : instances[i]._id = x}
DuplicateErrorsFor(x) ==
  SelectSeq(report.errors, LAMBDA e : e.kind = "duplicate-id" /\ e.info[1] = x)

\* C1: every instance whose _id is that of an earlier instance of the list
\* (of any class) yields exactly one duplicate-id error, which names the
\* file of the first instance with the id; the first yields none: n
\* instances sharing an id give n-1 errors, in list order.
DuplicateIdErrorPerLaterInstance ==
  report.state = "returned" =>
    /\ \A i \in 1..Len(instances) :
         LET x == instances[i]._id
             earlier == {k \in WithId(x) : k < i}
             errs == DuplicateErrorsFor(x)
         IN x # NoId =>
              /\ Len(errs) = Cardinality(WithId(x)) - 1
              /\ earlier # {} =>
                   /\ errs[Cardinality(earlier)].source = instances[i]._source
                   /\ errs[Cardinality(earlier)].instance = InstanceLabel(instances[i])
                   /\ errs[Cardinality(earlier)].info[2] = instances[Min(WithId(x))]._source
    /\ \A j \in 1..Len(ErrorsOfKind("duplicate-id")) :
         /\ ErrorsOfKind("duplicate-id")[j].info[1] # NoId
         /\ WithId(ErrorsOfKind("duplicate-id")[j].info[1]) # {}

\* Three instances share an id, the second in another file and of another
\* class than the first, and validate has reported two duplicates.
WitnessThreeShareId ==
  /\ report.state = "returned"
  /\ Len(instances) = 3
  /\ \A i \in 1..3 : instances[i]._id = IdA
  /\ instances[1]._source # instances[2]._source
  /\ instances[1]._class # instances[2]._class
  /\ instances[3]._source = instances[2]._source
  /\ Len(ErrorsOfKind("duplicate-id")) = 2

\* The _from instance of an edge: the first instance of the list with that id.
FromExists(edge) == edge._from # NoId /\ WithId(edge._from) # {}
FromInstance(edge) == instances[Min(WithId(edge._from))]
SameEdges(edge) ==
  {k \in 1..Len(relations) :
     /\ RelationLabel(relations[k]) = RelationLabel(edge)
     /\ relations[k]._source = edge._source}
PlacementErrorsFor(edge) ==
  SelectSeq(report.errors,
            LAMBDA e : /\ e.kind = "placement"
                       /\ e.instance = RelationLabel(edge)
                       /\ e.source = edge._source)

\* C2: an edge whose _from instance exists yields a placement error if and
\* only if its file differs from the file of that instance (one error per
\* such edge), and no placement error is reported for anything else.
PlacementErrorIffOtherFile ==
  report.state = "returned" =>
    /\ \A j \in 1..Len(relations) :
         FromExists(relations[j]) =>
           Len(PlacementErrorsFor(relations[j])) =
             IF relations[j]._source # FromInstance(relations[j])._source
             THEN Cardinality(SameEdges(relations[j])) ELSE 0
    /\ Len(ErrorsOfKind("placement")) =
         Cardinality({j \in 1..Len(relations) :
                        /\ FromExists(relations[j])
                        /\ relations[j]._source # FromInstance(relations[j])._source})

\* One edge lies in the file of its _from instance and one does not, and
\* validate has reported exactly the latter.
WitnessMisplacedEdge ==
  /\ report.state = "returned"
  /\ Len(relations) = 2
  /\ FromExists(relations[1]) /\ FromExists(relations[2])
  /\ relations[1]._source = FromInstance(relations[1])._source
  /\ relations[2]._source # FromInstance(relations[2])._source
  /\ Len(ErrorsOfKind("placement")) = 1

Froms == {relations[j]._from : j \in 1..Len(relations)}
EdgeCount(from, relName) ==
  Cardinality({j \in 1..Len(relations) :
                 relations[j]._from = from /\ relations[j]._relation = relName})
CodeOf(relName) == Get(schema.relations, relName).cardinality
CardinalityErrorsFor(relName) ==
  SelectSeq(report.errors, LAMBDA e : e.kind = "cardinality" /\ e.info[3] = relName)
DeclaredRelations == {schema.relations[i].k : i \in 1..Len(schema.relations)}

NameDefs == {PropDef(StringType, TRUE), PropDef(StringType, FALSE),
             PropDef(NumberAsType, FALSE), PropDef(NoType, FALSE), NullPropDef}

\* What an instance file may hold under components.
ComponentShapes ==
  {<<>>,
   <<Entry("naming", Block(<<Entry("name", Val("string"))>>))>>,
   <<Entry("naming", Block(<<Entry("name", Val("number"))>>))>>,
   <<Entry("naming", Block(<<>>))>>,
   <<Entry("naming", NullBlock)>>,
   <<Entry("other", NullBlock)>>}

\* Instances of a declared class, or without _class, with or without _id.
BadInstances ==
  {Inst(id, cls, F1, components) :
     id \in {IdA, NoId}, cls \in {"C", "undefined"}, components \in ComponentShapes}

InitMalformed ==
  /\ \E nameDef \in NameDefs :
       schema = SchemaOf(nameDef, <<Entry(RelR, RelDef("*", "*", "mtm"))>>)
  /\ instances \in SeqUpTo(BadInstances, MaxBadInstances)
  /\ relations = <<>>
  /\ \E present \in BOOLEAN :
       rawDocuments = [RawDocumentsOf(instances) EXCEPT !.present = present]
  /\ report = NoReport
  /\ WalkIdle /\ LexIdle /\ StoreIdle
  /\ QueryIdle /\ ParseIdle

SpecMalformed == InitMalformed /\ [][Validate]_vars

\* C8: validate never throws; a report is returned for every model.
ValidateNeverThrows == report.state # "threw"

(***************************************************************************)
(* The validate command on typed properties: string, date, ref and ref[]   *)
(***************************************************************************)

MaxRefs == 2

\* Class C carries naming (Naming: a required name) and link (Link: a date,
\* a ref restricted by allowedTypes, a list of refs); class D carries none.
LinkDef(allowedList) ==
  [properties |->
     <<Entry("when", PropDef(TypeTag("date", FALSE), FALSE)),
       Entry("owner", RefPropDef(FALSE, FALSE, allowedList)),
       Entry("peers", RefPropDef(TRUE, FALSE, <<>>))>>]

TypedSchema(allowedList) ==
  [components |-> <<Entry("Naming", NamingDef(PropDef(StringType, TRUE))),
                    Entry("Link", LinkDef(allowedList))>>,
   classes |-> <<Entry("C", [components |-> <<Entry("naming", "Naming"),
                                              Entry("link", "Link")>>]),
                 Entry("D", [components |-> <<>>])>>,
   relations |-> <<>>]

AllowedLists == {<<>>, <<"D">>, <<"C", "D">>}

\* An entry of a block, left out when the value is undefined.
Opt(key, value) == IF value.t = "undefined" THEN <<>> ELSE <<Entry(key, value)>>

\* The naming block: left out, empty, or with a name.
NamingBlocks ==
  {<<>>, <<Entry("naming", Block(<<>>))>>,
   <<Entry("naming", Block(<<Entry("name", Val("string"))>>))>>,
   <<Entry("naming", Block(<<Entry("name", Val("number"))>>))>>}
WhenValues ==
  {UndefinedValue, StringVal(<<"1">>), StringVal(<<"x">>), Val("date"),
   Val("number")}

\* b:D, b:C, a:C, c:D, b, :D, b:, b:1 and b:D written with blanks.
RefTexts ==
  {<<"b", ":", "D">>, <<"b", ":", "C">>, <<"a", ":", "C">>, <<"c", ":", "D">>,
   <<"b">>, <<":", "D">>, <<"b", ":">>, <<"b", ":", "1">>,
   <<" ", "b", " ", ":", " ", "D", " ">>}
OwnerValues == {UndefinedValue, Val("number")} \cup {StringVal(t) : t \in RefTexts}

PeerTexts == {<<"b", ":", "D">>, <<"a", ":", "C">>, <<"c", ":", "D">>}
PeersValues ==
  {UndefinedValue, Val("string")}
  \cup {ArrayVal(elems) : elems \in SeqUpTo({StringVal(t) : t \in PeerTexts}, MaxRefs)}

ExtraValues == {UndefinedValue, Val("string")}

\* Instance a of class C, with or without its blocks.
TypedInstances ==
  {Inst(IdA, "C", F1,
        naming
        \o <<Entry("link", Block(Opt("when", when) \o Opt("owner", owner)
                                 \o Opt("peers", peers) \o Opt("extra", extra)))>>) :
     naming \in NamingBlocks, when \in WhenValues,
     owner \in OwnerValues, peers \in PeersValues, extra \in ExtraValues}

\* Instance b: of class D, or of class C without the required naming.
TargetInstances == {Inst(IdB, "D", F2, <<>>), Inst(IdB, "C", F2, <<>>)}

InitTyped ==
  /\ \E allowedList \in AllowedLists : schema = TypedSchema(allowedList)
  /\ \E a \in TypedInstances, b \in TargetInstances :
       instances = <<a, b>>
  /\ relations = <<>>
  /\ rawDocuments = RawDocumentsOf(instances)
  /\ report = NoReport
  /\ WalkIdle /\ LexIdle /\ StoreIdle
  /\ QueryIdle /\ ParseIdle

SpecTyped == InitTyped /\ [][Validate]_vars

\* The class of the instance and the definition of a property of one of
\* its blocks.
ClassOf(instance) == Get(schema.classes, instance._class)
PropertiesOf(instance, localName) ==
  Get(schema.components, Get(ClassOf(instance).components, localName)).properties

\* The spellings of id:Class that name the instance: blanks may surround
\* the id and the class name.
Blanks == {<<>>, <<" ">>}
RefTextsOf(target) ==
  {la \o target._id \o lb \o <<":">> \o lc \o ClassText(target._class) \o ld :
     la \in Blanks, lb \in Blanks, lc \in Blanks, ld \in Blanks}

\* The reference names an instance of the model by its id and its class;
\* with `allowed`, the class is also one of allowedTypes when the
\* definition lists any.
RefConforms(value, propDef, allowed) ==
  /\ value.t = "string"
  /\ \E j \in 1..Len(instances) :
       /\ value.s \in RefTextsOf(instances[j])
       /\ \/ ~allowed
          \/ propDef.allowedList = <<>>
          \/ \E n \in 1..Len(propDef.allowedList) :
               propDef.allowedList[n] = instances[j]._class

ScalarConforms(value, propDef, allowed) ==
  CASE propDef.type.base = "string" -> value.t = "string"
    [] propDef.type.base = "bool" -> value.t = "boolean"
    [] propDef.type.base = "date" ->
         \/ value.t = "date"
         \/ value.t = "string" /\ value.s \in ParsableDates
    [] propDef.type.base = "ref" -> RefConforms(value, propDef, allowed)
    [] OTHER -> TRUE

ValueConforms(value, propDef, allowed) ==
  IF propDef.type.isArray
  THEN /\ value.t = "array"
       /\ \A i \in 1..Len(value.elems) :
            ScalarConforms(value.elems[i], propDef, allowed)
  ELSE ScalarConforms(value, propDef, allowed)

\* The instance is of a class of the schema, its _id is its own, its
\* blocks are blocks of the class holding only declared properties with
\* values of the declared type, and no required property is left out.
ConformsTo(instance, allowed) ==
  /\ Has(schema.classes, instance._class)
  /\ instance._id # NoId
  /\ Cardinality(WithId(instance._id)) = 1
  /\ \A r \in 1..Len(instance.rootKeys) : instance.rootKeys[r] \in reservedFields
  /\ \A b \in 1..Len(instance.components) :
       LET localName == instance.components[b].k
           block == instance.components[b].v
       IN /\ Has(ClassOf(instance).components, localName)
          /\ ~block.isNull
          /\ \A p \in 1..Len(block.props) :
               /\ Has(PropertiesOf(instance, localName), block.props[p].k)
               /\ ValueConforms(block.props[p].v,
                                Get(PropertiesOf(instance, localName),
                                    block.props[p].k),
                                allowed)
  /\ \A c \in 1..Len(ClassOf(instance).components) :
       LET localName == ClassOf(instance).components[c].k
           properties == PropertiesOf(instance, localName)
       IN \A q \in 1..Len(properties) :
            properties[q].v.required
              => /\ Has(instance.components, localName)
                 /\ Has(Get(instance.components, localName).props, properties[q].k)

\* Conforming as the claim lists it, and with allowedTypes respected too.
ConformsAsStated(instance) == ConformsTo(instance, FALSE)
Conforms(instance) == ConformsTo(instance, TRUE)

ErrorsOf(instance) ==
  SelectSeq(report.errors, LAMBDA e : e.instance = InstanceLabel(instance))

MaxOrderEdges == 2

IdC == <<"c">>

\* Naming.name as a string, with or without allowedTypes (which only a ref
\* may carry); relation R one-to-one, with or without a declared LINKS_TO.
OrderSchemas ==
  {SchemaOf([PropDef(StringType, TRUE) EXCEPT !.allowedTypes = allowedTypes],
            <<Entry(RelR, RelDef("*", "*", "oto"))>>
            \o (IF declared THEN <<Entry(LINKS_TO, RelDef("*", "*", "mtm"))>>
                ELSE <<>>)) :
     allowedTypes \in {"undefined", "strings"}, declared \in BOOLEAN}

\* Two instances: in their own files or in one, with their own ids or one,
\* the first with or without its required naming.
OrderInstanceLists ==
  {<<Inst(IdA, "C", F1, components), Inst(id, "D", source, <<>>)>> :
     components \in {GoodComponents("C"), <<>>}, id \in {IdA, IdB},
     source \in {F1, F2}}

\* Edges of a: to a, b or the absent c, placed in a's file or in another.
OrderEdges ==
  {Edge(IdA, RelR, to, source) : to \in {IdA, IdB, IdC}, source \in {F1, F2}}

\* A relation target that is an object without _to.
ObjectTarget ==
  [shape |-> "object", label |-> <<"C", IdA>>, relation |-> RelR, index |-> 0]

\* The loaded documents, the first instance file with or without a wrong
\* apiVersion, a top-level spec.relations and a malformed relation target.
OrderDocuments(classes, badVersion, specRelations, badTarget) ==
  LET raw == RawDocumentsOf(classes)
  IN [raw EXCEPT
        !.docs[2].apiVersion = IF badVersion THEN "v0" ELSE @,
        !.docs[2].specRelations = specRelations,
        !.docs[2].targets = IF badTarget THEN <<ObjectTarget>> ELSE <<>>]

InitOrder ==
  /\ schema \in OrderSchemas
  /\ instances \in OrderInstanceLists
  /\ relations \in SeqUpTo(OrderEdges, MaxOrderEdges)
  /\ \E badVersion \in BOOLEAN, specRelations \in BOOLEAN, badTarget \in BOOLEAN :
       rawDocuments = OrderDocuments(instances, badVersion, specRelations, badTarget)
  /\ report = NoReport
  /\ WalkIdle /\ LexIdle /\ StoreIdle
  /\ QueryIdle /\ ParseIdle

SpecOrder == InitOrder /\ [][Validate]_vars

\* The check an error comes from, by its message.
DocumentKinds ==
  {"missing-apiVersion", "invalid-apiVersion", "missing-kind", "invalid-kind",
   "no-schema-or-spec"}
TargetKinds ==
  {"target-has-id-or-class", "target-without-to", "target-not-string-or-object"}
MetadataKinds ==
  {"allowedTypes-not-ref", "allowedTypes-not-string-array",
   "uiHints-not-string-array"}
InstanceKinds ==
  {"class-not-defined", "root-property", "component-not-in-class",
   "component-class-undefined", "missing-required-property", "invalid-type",
   "invalid-ref", "ref-not-found", "ref-type-mismatch", "ref-not-allowed",
   "undeclared-property", "missing-required-component"}
EdgeKinds ==
  {"relation-not-defined", "missing-source", "missing-target",
   "domain-mismatch", "range-mismatch", "qualifier-invalid-type"}

\* The place of a check after the first two, in the claimed order and in
\* the order of the statements of validate alike.
LaterRank(kind) ==
  CASE kind = "top-level-relations" -> 3
    [] kind \in TargetKinds -> 4
    [] kind \in MetadataKinds -> 5
    [] kind = "many-instances-in-file" -> 6
    [] kind = "duplicate-id" -> 7
    [] kind \in InstanceKinds -> 8
    [] kind \in EdgeKinds -> 9
    [] kind = "placement" -> 10
    [] kind = "cardinality" -> 11
    [] OTHER -> 12

\* Document structure first, then the reserved name.
StatedRank(kind) ==
  CASE kind \in DocumentKinds -> 1
    [] kind = "links-to-reserved" -> 2
    [] OTHER -> LaterRank(kind)

\* The reserved name first, then document structure.
StatementRank(kind) ==
  CASE kind = "links-to-reserved" -> 1
    [] kind \in DocumentKinds -> 2
    [] OTHER -> LaterRank(kind)

InOrder(errors, Rank(_)) ==
  \A i \in 1..Len(errors), j \in 1..Len(errors) :
    i < j => Rank(errors[i].kind) <= Rank(errors[j].kind)

\* C20 as stated: the errors of a returned report are in the order
\* document structure, LINKS_TO reserved name, top-level spec.relations,
\* relation-target shape, schema metadata, one instance per file, duplicate
\* id, per-instance, per-edge, placement, cardinality.
ErrorsInStatedOrder ==
  report.state = "returned" => InOrder(report.errors, StatedRank)

\* C20 amended: the errors of a returned report are in that order with the
\* LINKS_TO reserved-name error before the document-structure errors.
ErrorsInOrderOfChecks ==
  report.state = "returned" => InOrder(report.errors, StatementRank)

\* A report with an error of each of the eleven checks.
WitnessErrorOfEveryCheck ==
  /\ report.state = "returned"
  /\ {StatementRank(report.errors[i].kind) : i \in 1..Len(report.errors)} = 1..11

(***************************************************************************)
(* The validate command on graphs with undeclared classes and relations    *)
(***************************************************************************)

MaxLooseEdges == 2

RelT == <<"T">>

\* R between any classes with a string qualifier since; S from C to D.
SinceDef == <<Entry("since", PropDef(StringType, FALSE))>>
LooseSchema ==
  SchemaOf(PropDef(StringType, TRUE),
           <<Entry(RelR, [RelDef("*", "*", "mtm") EXCEPT !.qualifiers = SinceDef]),
             Entry(RelS, RelDef("C", "D", "mto"))>>)

\* Instance a of class C or of the undeclared X, with its naming, without
\* it or with a block no class has; instance a or b of class C, D or X.
LooseInstanceLists ==
  {<<Inst(IdA, cls, F1, components), Inst(id, other, F2, <<>>)>> :
     cls \in {"C", "X"},
     components \in {GoodComponents("C"), <<>>, <<Entry("other", Block(<<>>))>>},
     id \in {IdA, IdB}, other \in {"C", "D", "X"}}

\* Edges of R, S and the undeclared T, from a or the absent c to b or c,
\* each with a number under since.
LooseEdges ==
  {[Edge(from, rel, to, F1) EXCEPT !.quals = <<Entry("since", Val("number"))>>] :
     from \in {IdA, IdC}, rel \in {RelR, RelS, RelT}, to \in {IdB, IdC}}

InitLoose ==
  /\ schema = LooseSchema
  /\ instances \in LooseInstanceLists
  /\ relations \in SeqUpTo(LooseEdges, MaxLooseEdges)
  /\ rawDocuments = RawDocumentsOf(instances)
  /\ report = NoReport
  /\ WalkIdle /\ LexIdle /\ StoreIdle
  /\ QueryIdle /\ ParseIdle

SpecLoose == InitLoose /\ [][Validate]_vars

ClassDeclared(instance) == Has(schema.classes, instance._class)
RelationDeclared(relation) ==
  relation._relation = LINKS_TO \/ Has(schema.relations, relation._relation)

\* The per-instance and per-edge errors of a list under a label.
InstanceErrors(errors, label) ==
  SelectSeq(errors, LAMBDA e : e.kind \in InstanceKinds /\ e.instance = label)
EdgeErrors(errors, label) ==
  SelectSeq(errors, LAMBDA e : e.kind \in EdgeKinds /\ e.instance = label)

\* The graph without its instances of undeclared classes and without its
\* edges of undeclared relations.
DeclaredData ==
  [Data EXCEPT !.instances.classes = SelectSeq(instances, ClassDeclared),
               !.instances.relations = SelectSeq(relations, RelationDeclared)]
DeclaredEdgesData ==
  [Data EXCEPT !.instances.relations = SelectSeq(relations, RelationDeclared)]

\* One class-not-defined error, and no other per-instance error, for each
\* instance of an undeclared class.
OnlyClassNotDefined ==
  \A i \in 1..Len(instances) :
    ~ClassDeclared(instances[i]) =>
      LET mine == InstanceErrors(report.errors, InstanceLabel(instances[i]))
      IN /\ \A n \in 1..Len(mine) : mine[n].kind = "class-not-defined"
         /\ Len(mine) = Cardinality({j \in 1..Len(instances) :
                           InstanceLabel(instances[j]) = InstanceLabel(instances[i])})

\* One relation-not-defined error, and no other per-edge error, for each
\* edge of an undeclared relation.
OnlyRelationNotDefined ==
  \A i \in 1..Len(relations) :
    ~RelationDeclared(relations[i]) =>
      LET mine == EdgeErrors(report.errors, RelationLabel(relations[i]))
      IN /\ \A n \in 1..Len(mine) : mine[n].kind = "relation-not-defined"
         /\ Len(mine) = Cardinality({j \in 1..Len(relations) :
                           RelationLabel(relations[j]) = RelationLabel(relations[i])})

\* The instances of declared classes and the edges of declared relations
\* get the errors they get in the graph without the undeclared ones.
OthersKeepTheirErrors ==
  /\ \A i \in 1..Len(instances) :
       ClassDeclared(instances[i]) =>
         InstanceErrors(report.errors, InstanceLabel(instances[i]))
           = InstanceErrors(validate(DeclaredData).errors,
                            InstanceLabel(instances[i]))
  /\ \A i \in 1..Len(relations) :
       RelationDeclared(relations[i]) =>
         EdgeErrors(report.errors, RelationLabel(relations[i]))
           = EdgeErrors(validate(DeclaredEdgesData).errors,
                        RelationLabel(relations[i]))

MaxRootKeys == 2

\* Keys at the root of an instance next to _class, _id, _source and
\* components: two reserved ones and two others.
RootKeyNames == {"_namespace", "relations", "title", "note"}
RootKeyLists ==
  {keys \in SeqUpTo(RootKeyNames, MaxRootKeys) :
     \A i \in 1..Len(keys), j \in 1..Len(keys) : keys[i] = keys[j] => i = j}

\* A block with or without name (declared by Naming), extra and
\* constructor (not declared).
StrictProps ==
  {Opt("name", name) \o Opt("extra", extra) \o Opt("constructor", ctor) :
     name \in {UndefinedValue, Val("string")},
     extra \in {UndefinedValue, Val("string")},
     ctor \in {UndefinedValue, Val("string")}}

\* The blocks of an instance: naming (declared on C), other and
\* constructor (declared on no class), each present or not.
StrictComponents ==
  {naming \o other \o ctor :
     naming \in {<<>>} \cup {<<Entry("naming", Block(props))>> : props \in StrictProps},
     other \in {<<>>, <<Entry("other", Block(<<>>))>>,
                <<Entry("other", Block(<<Entry("extra", Val("string"))>>))>>},
     ctor \in {<<>>, <<Entry("constructor", Block(<<>>))>>}}

StrictInstances ==
  {[Inst(IdA, cls, F1, components) EXCEPT !.rootKeys = keys] :
     cls \in {"C", "D"}, components \in StrictComponents, keys \in RootKeyLists}

InitStrict ==
  /\ schema = WellFormedSchema("mtm")
  /\ \E instance \in StrictInstances : instances = <<instance>>
  /\ relations = <<>>
  /\ rawDocuments = RawDocumentsOf(instances)
  /\ report = NoReport
  /\ WalkIdle /\ LexIdle /\ StoreIdle
  /\ QueryIdle /\ ParseIdle

SpecStrict == InitStrict /\ [][Validate]_vars

\* The number of errors of the report of one of the kinds with the info.
ErrorCount(kinds, Matches(_)) ==
  Len(SelectSeq(report.errors, LAMBDA e : e.kind \in kinds /\ Matches(e.info)))

\* Every root key outside the reserved ones has one error.
RootKeysReported(instance) ==
  \A r \in 1..Len(instance.rootKeys) :
    instance.rootKeys[r] \notin reservedFields
      => ErrorCount({"root-property"},
                    LAMBDA info : info[1] = instance.rootKeys[r]) = 1

\* Every block under a local name the class does not declare has one error.
UndeclaredBlocksReported(instance) ==
  \A b \in 1..Len(instance.components) :
    ~Has(ClassOf(instance).components, instance.components[b].k)
      => ErrorCount({"component-not-in-class"},
                    LAMBDA info : info[1] = instance.components[b].k)
         + ErrorCount({"component-class-undefined"},
                      LAMBDA info : info[2] = instance.components[b].k) = 1

\* Every property of a declared block that the component does not declare
\* has one error.
UndeclaredPropertiesReported(instance) ==
  \A b \in 1..Len(instance.components) :
    LET localName == instance.components[b].k
        props == instance.components[b].v.props
    IN Has(ClassOf(instance).components, localName) =>
         \A p \in 1..Len(props) :
           ~Has(PropertiesOf(instance, localName), props[p].k)
             => ErrorCount({"undeclared-property"},
                           LAMBDA info : info[1] = localName /\ info[2] = props[p].k) = 1

\* Every component of the class with a required property that the instance
\* leaves out has one missing-required-component error.
MissingComponentsReported(instance) ==
  \A c \in 1..Len(ClassOf(instance).components) :
    LET localName == ClassOf(instance).components[c].k
        properties == PropertiesOf(instance, localName)
    IN (/\ \E q \in 1..Len(properties) : properties[q].v.required
        /\ ~Has(instance.components, localName))
         => ErrorCount({"missing-required-component"},
                       LAMBDA info : info[1] = localName) = 1

\* C22: for an instance of a declared class, every root key outside the
\* reserved set, every block the class does not declare, every property a
\* declared block's component does not declare, and every absent component
\* with a required property yields one error.
NoSchemalessPassthrough ==
  report.state = "returned"
    => \A i \in 1..Len(instances) :
         ClassDeclared(instances[i])
           => /\ RootKeysReported(instances[i])
              /\ UndeclaredBlocksReported(instances[i])
              /\ UndeclaredPropertiesReported(instances[i])
              /\ MissingComponentsReported(instances[i])

\* An instance of C whose naming block holds name and the undeclared
\* constructor, and a report without errors.
WitnessConstructorPassesThrough ==
  /\ report.state = "returned"
  /\ instances[1]._class = "C"
  /\ Has(instances[1].components, "naming")
  /\ Has(Get(instances[1].components, "naming").props, "constructor")
  /\ report.valid

(***************************************************************************)
(* The validate command on ref and ref[] values                            *)
(***************************************************************************)

MaxPeers == 2

\* b:D, b:C, a:R:D, a:R, c:D, b, :D, b:, b:1 and b:D written with blanks.
OwnerTexts ==
  {<<"b", ":", "D">>, <<"b", ":", "C">>, <<"a", ":", "R", ":", "D">>,
   <<"a", ":", "R">>, <<"c", ":", "D">>, <<"b">>, <<":", "D">>, <<"b", ":">>,
   <<"b", ":", "1">>, <<" ", "b", " ", ":", " ", "D", " ">>}
RefOwnerValues == {UndefinedValue, Val("number")} \cup {StringVal(t) : t \in OwnerTexts}

\* b:D, a:R:D, c:D and b as items of a list.
ItemTexts ==
  {<<"b", ":", "D">>, <<"a", ":", "R", ":", "D">>, <<"c", ":", "D">>, <<"b">>}
RefPeersValues ==
  {UndefinedValue}
  \cup {ArrayVal(elems) : elems \in SeqUpTo({StringVal(t) : t \in ItemTexts}, MaxPeers)}

\* Instance a of class C with its name and the two reference properties,
\* next to b of class D or C, or a:R of class D.
RefInstanceLists ==
  {<<Inst(IdA, "C", F1,
          <<Entry("naming", Block(<<Entry("name", Val("string"))>>)),
            Entry("link", Block(Opt("owner", owner) \o Opt("peers", peers)))>>),
     other>> :
     owner \in RefOwnerValues, peers \in RefPeersValues,
     other \in {Inst(IdB, "D", F2, <<>>), Inst(IdB, "C", F2, <<>>),
                Inst(IdAR, "D", F2, <<>>)}}

InitRefs ==
  /\ \E allowedList \in AllowedLists : schema = TypedSchema(allowedList)
  /\ instances \in RefInstanceLists
  /\ relations = <<>>
  /\ rawDocuments = RawDocumentsOf(instances)
  /\ report = NoReport
  /\ WalkIdle /\ LexIdle /\ StoreIdle
  /\ QueryIdle /\ ParseIdle

SpecRefs == InitRefs /\ [][Validate]_vars

\* The text without the blanks at its ends.
Stripped(s) ==
  LET inked == {i \in 1..Len(s) : s[i] # " "}
  IN IF inked = {} THEN <<>>
     ELSE SubSeq(s, CHOOSE i \in inked : \A j \in inked : i <= j,
                    CHOOSE i \in inked : \A j \in inked : j <= i)

\* [A-Za-z][A-Za-z0-9_]* over the characters of the model.
NameHeads == {"a", "b", "c", "C", "D", "R"}
LooksLikeClassName(s) ==
  /\ Len(s) >= 1 /\ s[1] \in NameHeads
  /\ \A i \in 2..Len(s) : s[i] \in NameHeads \cup {"1", "_"}

\* The value, blanks around it and around its parts aside, is id:Class
\* split at its last colon, with a non-empty id that an instance has, the
\* class of that instance, and a class of allowedTypes if any are listed.
RefAccepted(value, propDef) ==
  /\ value.t = "string"
  /\ \E k \in 1..Len(value.s) :
       LET id == Stripped(SubSeq(value.s, 1, k - 1))
           cls == Stripped(SubSeq(value.s, k + 1, Len(value.s)))
       IN /\ value.s[k] = ":"
          /\ \A j \in (k + 1)..Len(value.s) : value.s[j] # ":"
          /\ id # <<>>
          /\ LooksLikeClassName(cls)
          /\ \E n \in 1..Len(instances) :
               instances[n]._id = id /\ ClassText(instances[n]._class) = cls
          /\ \/ propDef.allowedList = <<>>
             \/ \E m \in 1..Len(propDef.allowedList) :
                  ClassText(propDef.allowedList[m]) = cls

\* The errors of the report about a property of the link block of a.
LinkErrors(propName) ==
  SelectSeq(report.errors, LAMBDA e : e.kind \in InstanceKinds
                                      /\ e.info = <<"link", propName>>)
LinkValue(propName) ==
  LET link == Get(instances[1].components, "link").props
  IN IF Has(link, propName) THEN Get(link, propName) ELSE UndefinedValue
LinkDefOf(propName) == Get(Get(schema.components, "Link").properties, propName)

\* The items of a ref[] value that are not accepted.
FailingItems(propName) ==
  {i \in 1..Len(LinkValue(propName).elems) :
     ~RefAccepted(LinkValue(propName).elems[i], LinkDefOf(propName))}

\* A ref value is without error exactly when it is accepted, a ref[] value
\* exactly when all its items are.
RefAcceptedIffNoError ==
  /\ LinkValue("owner").t # "undefined"
       => (LinkErrors("owner") = <<>>
             <=> RefAccepted(LinkValue("owner"), LinkDefOf("owner")))
  /\ LinkValue("peers").t = "array"
       => (LinkErrors("peers") = <<>> <=> FailingItems("peers") = {})

\* Each failing item of a ref[] value has its own error.
ErrorPerFailingItem ==
  LinkValue("peers").t = "array"
    => Len(LinkErrors("peers")) = Cardinality(FailingItems("peers"))

\* C23: a ref or ref[] value has no error exactly when it splits at its
\* last colon into a non-empty id and a class name, an instance has that
\* id and that class, and the class is one of allowedTypes if set (an id
\* with a colon in it included); each failing item of a ref[] has its own
\* error.
RefsAcceptedOrReportedPerItem ==
  report.state = "returned" => RefAcceptedIffNoError /\ ErrorPerFailingItem

\* A list of a malformed item and an item naming no instance, with one
\* error for the two.
WitnessOneErrorForTwoFailingItems ==
  /\ report.state = "returned"
  /\ LinkValue("peers").t = "array"
  /\ Cardinality(FailingItems("peers")) = 2
  /\ \E i \in FailingItems("peers") : LinkValue("peers").elems[i].s = <<"b">>
  /\ \E i \in FailingItems("peers") :
       LinkValue("peers").elems[i].s = <<"c", ":", "D">>
  /\ Len(LinkErrors("peers")) = 1

(***************************************************************************)
(* The validate command on schemas with allowedTypes and uiHints           *)
(***************************************************************************)

MetadataTags == {"undefined", "notArray", "badItems", "blankItems", "empty", "strings"}
MetadataTypes ==
  {StringType, TypeTag("ref", FALSE), TypeTag("ref", TRUE), TypeTag("date", FALSE),
   NoType}

\* Naming.name and Naming.tags of every type, with every shape of
\* allowedTypes and uiHints.
MetadataDefs ==
  {[PropDef(type, FALSE) EXCEPT !.allowedTypes = allowedTypes, !.uiHints = uiHints] :
     type \in MetadataTypes, allowedTypes \in MetadataTags,
     uiHints \in {"undefined", "notArray", "strings"}}

MetadataSchema(nameDef, tagsDef) ==
  [components |->
     <<Entry("Naming", [properties |-> <<Entry("name", nameDef),
                                         Entry("tags", tagsDef)>>])>>,
   classes |-> <<Entry("C", [components |-> <<Entry("naming", "Naming")>>])>>,
   relations |-> <<>>]

InitMetadata ==
  /\ \E nameDef \in MetadataDefs,
        tagsDef \in {PropDef(StringType, FALSE),
                     [PropDef(TypeTag("ref", TRUE), FALSE) EXCEPT !.allowedTypes = "empty"]} :
       schema = MetadataSchema(nameDef, tagsDef)
  /\ instances = <<>>
  /\ relations = <<>>
  /\ rawDocuments = RawDocumentsOf(instances)
  /\ report = NoReport
  /\ WalkIdle /\ LexIdle /\ StoreIdle
  /\ QueryIdle /\ ParseIdle

SpecMetadata == InitMetadata /\ [][Validate]_vars

\* The allowedTypes errors of the report about a property of Naming.
AllowedTypesErrors(propName) ==
  SelectSeq(report.errors,
            LAMBDA e : /\ e.kind \in {"allowedTypes-not-ref",
                                       "allowedTypes-not-string-array"}
                       /\ e.instance = <<"Naming", propName>>)

IsRefType(propDef) == propDef.type.kind = "string" /\ propDef.type.base = "ref"

\* Every property of Naming that carries allowedTypes has an error unless
\* it is a ref or ref[] whose allowedTypes is of one of the shapes.
AllowedTypesErrorUnless(shapes) ==
  LET properties == Get(schema.components, "Naming").properties
  IN \A i \in 1..Len(properties) :
       properties[i].v.allowedTypes # "undefined"
         => (AllowedTypesErrors(properties[i].k) = <<>>
               <=> IsRefType(properties[i].v)
                   /\ properties[i].v.allowedTypes \in shapes)

\* C24 as stated: a property with allowedTypes has a schema error unless it
\* is a ref or ref[] and allowedTypes is a non-empty array of strings.
AllowedTypesNonEmptyStringArray ==
  report.state = "returned" => AllowedTypesErrorUnless({"strings", "blankItems"})

\* C24 amended: a property with allowedTypes has a schema error unless it
\* is a ref or ref[] and allowedTypes is an array, empty or not, of
\* strings none of which is blank.
AllowedTypesNonBlankStringArray ==
  report.state = "returned" => AllowedTypesErrorUnless({"strings", "empty"})

\* A ref[] property with allowedTypes: [] in a report without errors.
WitnessEmptyAllowedTypesAccepted ==
  /\ report.state = "returned"
  /\ Get(Get(schema.components, "Naming").properties, "tags").allowedTypes = "empty"
  /\ Get(Get(schema.components, "Naming").properties, "name").allowedTypes = "strings"
  /\ report.valid

(***************************************************************************)
(* The validate command on edges of declared relations                     *)
(***************************************************************************)

MaxCheckedEdges == 2

\* R between any classes with the string qualifier since; S from C to D
\* without qualifiers.
CheckedSchema == LooseSchema

\* a of class C and b of class D, or the other way round.
CheckedInstanceLists ==
  {<<Inst(IdA, "C", F1, GoodComponents("C")), Inst(IdB, "D", F2, <<>>)>>,
   <<Inst(IdA, "D", F1, <<>>), Inst(IdB, "C", F2, GoodComponents("C"))>>}

\* Edges of R, S and LINKS_TO from a or the absent c to b or c, with a
\* string or a number under since, or a number under other.
CheckedQualifiers ==
  {<<Entry("since", Val("string"))>>, <<Entry("since", Val("number"))>>,
   <<Entry("other", Val("number"))>>}
CheckedEdges ==
  {[Edge(from, rel, to, F1) EXCEPT !.quals = quals] :
     from \in {IdA, IdC}, rel \in {RelR, RelS, LINKS_TO}, to \in {IdB, IdC},
     quals \in CheckedQualifiers}

InitChecked ==
  /\ schema = CheckedSchema
  /\ instances \in CheckedInstanceLists
  /\ relations \in SeqUpTo(CheckedEdges, MaxCheckedEdges)
  /\ rawDocuments = RawDocumentsOf(instances)
  /\ report = NoReport
  /\ WalkIdle /\ LexIdle /\ StoreIdle
  /\ QueryIdle /\ ParseIdle

SpecChecked == InitChecked /\ [][Validate]_vars

\* The definition an edge is checked against.
DefinitionOf(relation) ==
  IF relation._relation = LINKS_TO THEN RelDef("*", "*", "mtm")
  ELSE Get(schema.relations, relation._relation)

\* The instances with the id, and whether one of them is of the class.
Exists(id) == \E n \in 1..Len(instances) : instances[n]._id = id
HasClass(id, class) ==
  \E n \in 1..Len(instances) : instances[n]._id = id /\ instances[n]._class = class

\* What an edge of a declared relation is to be reported for.
Expected(relation, kind) ==
  CASE kind = "missing-source" -> ~Exists(relation._from)
    [] kind = "missing-target" -> ~Exists(relation._to)
    [] kind = "domain-mismatch" ->
         /\ Exists(relation._from)
         /\ DefinitionOf(relation).domain # "*"
         /\ ~HasClass(relation._from, DefinitionOf(relation).domain)
    [] kind = "range-mismatch" ->
         /\ Exists(relation._to)
         /\ DefinitionOf(relation).range # "*"
         /\ ~HasClass(relation._to, DefinitionOf(relation).range)
    [] kind = "qualifier-invalid-type" ->
         \E q \in 1..Len(relation.quals) :
           /\ Has(DefinitionOf(relation).qualifiers, relation.quals[q].k)
           /\ relation.quals[q].v.t # "string"
    [] OTHER -> FALSE

\* C25: for the edges of declared relations, the report has one error per
\* absent endpoint, a domain (range) error exactly for an existing from
\* (to) instance whose class differs from a domain (range) other than '*',
\* and a qualifier error only for a value under a qualifier the relation
\* declares.
EdgeErrorsExactlyAsDeclared ==
  report.state = "returned"
    => \A i \in 1..Len(relations), kind \in EdgeKinds :
         RelationDeclared(relations[i])
           => Len(SelectSeq(report.errors,
                            LAMBDA e : e.kind = kind
                                       /\ e.instance = RelationLabel(relations[i])))
              = Cardinality({j \in 1..Len(relations) :
                               /\ RelationLabel(relations[j]) = RelationLabel(relations[i])
                               /\ Expected(relations[j], kind)})

\* An S edge from a of class D to the absent c with a number under since:
\* a target error, a domain error and no qualifier error; and an R edge
\* with a number under since: a qualifier error.
WitnessEdgeWithSeveralErrors ==
  /\ report.state = "returned"
  /\ Len(relations) = 2
  /\ relations[1]._relation = RelS /\ relations[1]._from = IdA
  /\ relations[1]._to = IdC /\ instances[1]._class = "D"
  /\ relations[1].quals = <<Entry("since", Val("number"))>>
  /\ relations[2]._relation = RelR
  /\ relations[2].quals = <<Entry("since", Val("number"))>>
  /\ ErrorsOfKind("missing-target") # <<>>
  /\ ErrorsOfKind("domain-mismatch") # <<>>
  /\ Len(ErrorsOfKind("qualifier-invalid-type")) = 1

(***************************************************************************)
(* The validate command on LINKS_TO edges                                  *)
(***************************************************************************)

MaxLinkEdges == 2

\* R between any classes, with or without a declaration of LINKS_TO of
\* some domain and cardinality.
LinkSchemas ==
  {SchemaOf(PropDef(StringType, TRUE), <<Entry(RelR, RelDef("*", "*", "mtm"))>>)}
  \cup {SchemaOf(PropDef(StringType, TRUE),
                 <<Entry(RelR, RelDef("*", "*", "mtm")),
                   Entry(LINKS_TO, RelDef(domain, "C", code))>>) :
          domain \in {"*", "C"}, code \in Codes}

\* Edges of LINKS_TO and R from a or the absent c to a, b or c.
LinkEdges ==
  {Edge(from, rel, to, F1) :
     from \in {IdA, IdC}, rel \in {LINKS_TO, RelR}, to \in {IdA, IdB, IdC}}

InitLinks ==
  /\ schema \in LinkSchemas
  /\ instances = <<Inst(IdA, "D", F1, <<>>), Inst(IdB, "D", F2, <<>>)>>
  /\ relations \in SeqUpTo(LinkEdges, MaxLinkEdges)
  /\ rawDocuments = RawDocumentsOf(instances)
  /\ report = NoReport
  /\ WalkIdle /\ LexIdle /\ StoreIdle
  /\ QueryIdle /\ ParseIdle

SpecLinks == InitLinks /\ [][Validate]_vars

\* The errors about LINKS_TO edges that an implicit relation between any
\* classes and of cardinality mtm cannot have.
LinksToEdgeErrors ==
  SelectSeq(report.errors,
            LAMBDA e : \/ /\ e.kind \in {"relation-not-defined", "domain-mismatch",
                                          "range-mismatch"}
                          /\ e.instance[2] = LINKS_TO
                       \/ e.kind = "cardinality" /\ e.info[3] = LINKS_TO)

\* C26: a LINKS_TO edge has no relation-not-defined, domain, range or
\* cardinality error, and a schema that declares LINKS_TO has exactly one
\* reserved-name error.
LinksToAlwaysImplicit ==
  report.state = "returned"
    => /\ LinksToEdgeErrors = <<>>
       /\ Has(schema.relations, LINKS_TO)
            => Len(ErrorsOfKind("links-to-reserved")) = 1

\* A schema declaring LINKS_TO one-to-one, two LINKS_TO edges from a, and
\* a cardinality error about them.
WitnessDeclaredLinksToCardinality ==
  /\ report.state = "returned"
  /\ Has(schema.relations, LINKS_TO)
  /\ Get(schema.relations, LINKS_TO).cardinality = "oto"
  /\ Len(relations) = 2
  /\ \A i \in 1..2 : relations[i]._relation = LINKS_TO /\ relations[i]._from = IdA
  /\ Len(ErrorsOfKind("links-to-reserved")) = 1
  /\ \E i \in 1..Len(report.errors) :
       report.errors[i].kind = "cardinality" /\ report.errors[i].info[3] = LINKS_TO

(***************************************************************************)
(* graph command: buildOutgoingEdges and walkGraph                         *)
(***************************************************************************)

MaxWalkEdges == 3
MaxWalkDepth == 2

Nodes == {"A", "B", "C"}

WalkRel(from, relation, to) == [_from |-> from, _relation |-> relation, _to |-> to]

\* Relation instances as the loader hands them over; "" is a missing field.
WalkRels ==
  {WalkRel(from, "R", to) : from \in Nodes, to \in Nodes}
  \cup {WalkRel("A", "R", ""), WalkRel("A", "S", "B")}

\* The Map of _id -> [{relation, target}], in insertion order.
RECURSIVE buildOutgoingEdges(_, _)
buildOutgoingEdges(rels, edges) ==
  IF rels = <<>> THEN edges
  ELSE
    LET rel == Head(rels)
        entry == [relation |-> rel._relation, target |-> rel._to]
    IN IF rel._from = "" \/ rel._relation = "" \/ rel._to = ""
       THEN buildOutgoingEdges(Tail(rels), edges)
       ELSE buildOutgoingEdges(Tail(rels),
              IF Has(edges, rel._from)
              THEN [i \in 1..Len(edges) |->
                      IF edges[i].k = rel._from
                      THEN Entry(edges[i].k, Append(edges[i].v, entry))
                      ELSE edges[i]]
              ELSE Append(edges, Entry(rel._from, <<entry>>)))

\* edges.get(id) || []
NodeEdges(edges, id) == IF Has(edges, id) THEN Get(edges, id) ELSE <<>>

\* Skips with the depth test alone.
SkipsByDepthOnly(item, visited_, maxDepth_) == item.depth > maxDepth_

\* Skips with the nodes at maxDepth left unexpanded.
SkipsAtMaxDepth(item, visited_, maxDepth_) ==
  item.id \in visited_ \/ item.depth >= maxDepth_

\* if (visited.has(id) || depth > maxDepth) continue
Skips(item, visited_, maxDepth_) ==
  item.id \in visited_ \/ item.depth > maxDepth_

\* if (depth + 1 <= maxDepth && !visited.has(target))
Enqueues(depth, target, visited_, maxDepth_) ==
  depth + 1 <= maxDepth_ /\ target \notin visited_

\* The for loop over nodeEdges: acc holds rows and queue.
RECURSIVE ExpandEdges(_, _, _, _, _, _)
ExpandEdges(nodeEdges, id, depth, visited_, maxDepth_, acc) ==
  IF nodeEdges = <<>> THEN acc
  ELSE
    LET e == Head(nodeEdges)
    IN ExpandEdges(Tail(nodeEdges), id, depth, visited_, maxDepth_,
         [rows |-> Append(acc.rows, [id |-> id, relation |-> e.relation,
                                     target |-> e.target, depth |-> depth]),
          queue |-> IF Enqueues(depth, e.target, visited_, maxDepth_)
                    THEN Append(acc.queue, [id |-> e.target, depth |-> depth + 1])
                    ELSE acc.queue])

\* handleGraph up to the call of walkGraph, and walkGraph's first three
\* statements: a depth that is not a non-negative integer has exited.
InitWalk ==
  /\ wEdges \in SeqUpTo(WalkRels, MaxWalkEdges)
  /\ startId \in Nodes
  /\ maxDepth \in 0..MaxWalkDepth
  /\ rows = <<>>
  /\ visited = {}
  /\ queue = <<[id |-> startId, depth |-> 0]>>
  /\ wPc = "loop"
  /\ ValidatorIdle /\ LexIdle /\ StoreIdle
  /\ QueryIdle /\ ParseIdle

\* One iteration of the while loop.
WalkStep ==
  /\ wPc = "loop"
  /\ queue # <<>>
  /\ LET item == Head(queue)
     IN IF Skips(item, visited, maxDepth)
        THEN /\ queue' = Tail(queue)
             /\ UNCHANGED <<rows, visited>>
        ELSE LET result == ExpandEdges(NodeEdges(buildOutgoingEdges(wEdges, <<>>), item.id),
                                       item.id, item.depth, visited \cup {item.id},
                                       maxDepth, [rows |-> rows, queue |-> Tail(queue)])
             IN /\ visited' = visited \cup {item.id}
                /\ rows' = result.rows
                /\ queue' = result.queue
  /\ UNCHANGED <<wEdges, startId, maxDepth, wPc>>
  /\ UNCHANGED <<valVars, lexVars, storeVars, queryVars, parseVars>>

\* The loop condition fails: return rows.
WalkReturn ==
  /\ wPc = "loop"
  /\ queue = <<>>
  /\ wPc' = "done"
  /\ UNCHANGED <<wEdges, startId, maxDepth, rows, visited, queue>>
  /\ UNCHANGED <<valVars, lexVars, storeVars, queryVars, parseVars>>

WalkNext == WalkStep \/ WalkReturn

SpecWalk == InitWalk /\ [][WalkNext]_vars

(***************************************************************************)
(* Properties of walkGraph                                                 *)
(***************************************************************************)

OutgoingOf(id) == NodeEdges(buildOutgoingEdges(wEdges, <<>>), id)
RowsOf(id) == SelectSeq(rows, LAMBDA r : r.id = id)

\* C9: every node dequeued and expanded has one row per outgoing edge, in
\* order, all labelled with one depth (0 for the start node, one more than
\* a row leading to it otherwise); no row and no queue entry has a depth
\* above maxDepth, a target being enqueued only at depth d+1 <= maxDepth;
\* on return with maxDepth = 0 the rows are the start node's edges at 0.
RowsPerDequeuedNodeWithinDepth ==
  /\ \A n \in visited :
       /\ Len(RowsOf(n)) = Len(OutgoingOf(n))
       /\ \A k \in 1..Len(RowsOf(n)) :
            /\ RowsOf(n)[k].relation = OutgoingOf(n)[k].relation
            /\ RowsOf(n)[k].target = OutgoingOf(n)[k].target
            /\ RowsOf(n)[k].depth = RowsOf(n)[1].depth
            /\ IF n = startId THEN RowsOf(n)[k].depth = 0
               ELSE \E j \in 1..Len(rows) :
                      /\ rows[j].target = n
                      /\ rows[j].depth + 1 = RowsOf(n)[k].depth
  /\ \A j \in 1..Len(rows) : rows[j].depth <= maxDepth /\ rows[j].id \in visited
  /\ \A j \in 1..Len(queue) : queue[j].depth <= maxDepth
  /\ (wPc = "done" /\ maxDepth = 0) =>
       /\ visited = {startId}
       /\ rows = [k \in 1..Len(OutgoingOf(startId)) |->
                    [id |-> startId, relation |-> OutgoingOf(startId)[k].relation,
                     target |-> OutgoingOf(startId)[k].target, depth |-> 0]]

\* walkGraph has returned rows at depth maxDepth = 1 for a node whose
\* target was not enqueued.
WitnessRowAtMaxDepth ==
  /\ wPc = "done"
  /\ maxDepth = 1
  /\ \E j \in 1..Len(rows) :
       /\ rows[j].depth = 1
       /\ rows[j].target \notin visited
  /\ \E j \in 1..Len(rows) : rows[j].depth = 0

\* C10, safety part: the rows of a visited node never change again (a
\* later queue entry for it is skipped), and on return from A->B, B->A
\* started at A the result is the A row at depth 0 and the B row at depth 1.
VisitedNodeNotExpandedAgain ==
  [][\A n \in visited : RowsOf(n)' = RowsOf(n)]_vars

CycleResult ==
  (/\ wPc = "done"
   /\ wEdges = <<WalkRel("A", "R", "B"), WalkRel("B", "R", "A")>>
   /\ startId = "A"
   /\ maxDepth >= 1) =>
    rows = <<[id |-> "A", relation |-> "R", target |-> "B", depth |-> 0],
             [id |-> "B", relation |-> "R", target |-> "A", depth |-> 1]>>

\* Every iteration marks a node of the finite graph visited, or leaves
\* visited alone and shortens the queue; the last step returns.
IterationDecreasesMeasure ==
  [][\/ visited \subseteq visited' /\ visited' # visited /\ visited' \subseteq Nodes
     \/ visited' = visited /\ Len(queue') < Len(queue)
     \/ wPc' = "done"]_vars

\* C10: walkGraph terminates on every edge list (cycles and self-loops
\* included): the loop is either running, where WalkStep or WalkReturn can
\* be taken, or has returned, and no infinite sequence of iterations
\* exists; and it expands each node at most once.
WalkTerminatesExpandingOnce ==
  /\ [](wPc \in {"loop", "done"})
  /\ IterationDecreasesMeasure
  /\ VisitedNodeNotExpandedAgain
  /\ []CycleResult

\* walkGraph has returned from a walk in which B, with an edge back to A,
\* was enqueued twice.
WitnessCycleWalked ==
  /\ wPc = "done"
  /\ wEdges = <<WalkRel("A", "R", "B"), WalkRel("A", "R", "B"), WalkRel("B", "R", "A")>>
  /\ startId = "A"
  /\ maxDepth = 2
  /\ Len(rows) = 3

\* The nodes within k hops of the start node along the outgoing edges.
RECURSIVE Within(_)
Within(k) ==
  IF k = 0 THEN {startId}
  ELSE Within(k - 1)
       \cup {OutgoingOf(n)[j].target : <<n, j>> \in
               {p \in Within(k - 1) \X (1..MaxWalkEdges) : p[2] <= Len(OutgoingOf(p[1]))}}

Reachable(n) == n \in Within(Cardinality(Nodes))

\* The length of the shortest directed path from the start node to n.
Distance(n) == CHOOSE k \in 0..Cardinality(Nodes) :
                 n \in Within(k) /\ \A l \in 0..(k - 1) : n \notin Within(l)

WithinMaxDepth(n) == Reachable(n) /\ Distance(n) <= maxDepth

\* C27: every row carries the length of the shortest path from the start
\* node to its source, and on return the rows are exactly the edges whose
\* source lies within maxDepth hops of the start node.
RowsAtShortestDistance ==
  /\ \A j \in 1..Len(rows) :
       Reachable(rows[j].id) /\ rows[j].depth = Distance(rows[j].id)
  /\ wPc = "done" =>
       \A n \in Nodes :
         RowsOf(n) = IF WithinMaxDepth(n)
                     THEN [k \in 1..Len(OutgoingOf(n)) |->
                             [id |-> n, relation |-> OutgoingOf(n)[k].relation,
                              target |-> OutgoingOf(n)[k].target,
                              depth |-> Distance(n)]]
                     ELSE <<>>

\* walkGraph has returned from a walk in which B lies one hop from A and,
\* through its own loop, two hops from A, and A lies on a cycle through B;
\* the rows of B carry depth 1 and the row of A depth 0.
WitnessShortestOfSeveralPaths ==
  /\ wPc = "done"
  /\ wEdges = <<WalkRel("A", "R", "B"), WalkRel("B", "R", "B"), WalkRel("B", "R", "A")>>
  /\ startId = "A"
  /\ maxDepth = 2
  /\ Len(rows) = 3
  /\ rows[1].depth = 0 /\ rows[2].depth = 1 /\ rows[3].depth = 1

(***************************************************************************)
(* Query lexer: tokenize                                                   *)
(***************************************************************************)

MaxInputLen == 4

Alphabet == {"o", "O", "R", "-", ">", "[", ":", " ", "\"", "\\"}

KEYWORDS == {<<"A", "N", "D">>, <<"O", "R">>, <<"N", "O", "T">>}

Token(type, value, pos) == [type |-> type, value |-> value, position |-> pos]

isAtEnd(inp, pos) == pos >= Len(inp)

\* input[position]: undefined (here "") past the end, as peek() || ''.
CharAt(inp, pos) == IF pos < Len(inp) THEN inp[pos + 1] ELSE ""

IsWhitespace(c) == c = " "

\* Returns the position after the whitespace.
RECURSIVE skipWhitespace(_, _)
skipWhitespace(inp, pos) ==
  IF ~isAtEnd(inp, pos) /\ IsWhitespace(CharAt(inp, pos))
  THEN skipWhitespace(inp, pos + 1)
  ELSE pos

\* The while loop of readQuotedString, from the character after the quote.
RECURSIVE QuotedBody(_, _, _, _)
QuotedBody(inp, pos, quote, value) ==
  IF ~isAtEnd(inp, pos) /\ CharAt(inp, pos) # quote
  THEN LET p == IF CharAt(inp, pos) = "\\" /\ CharAt(inp, pos + 1) = quote
                THEN pos + 1 ELSE pos
       IN QuotedBody(inp, p + 1, quote, value \o <<CharAt(inp, p)>>)
  ELSE [value |-> value, position |-> pos]

readQuotedString(inp, pos) ==
  LET body == QuotedBody(inp, pos + 1, CharAt(inp, pos), <<>>)
  IN [token |-> Token("QUOTED_VALUE", body.value, pos),
      position |-> IF ~isAtEnd(inp, body.position) THEN body.position + 1
                   ELSE body.position]

\* /[\s:()[\]>."]/
StopsValue(c) == c \in {" ", ":", "(", ")", "[", "]", ">", ".", "\""}

RECURSIVE readValue(_, _, _)
readValue(inp, pos, value) ==
  IF isAtEnd(inp, pos) THEN [value |-> value, position |-> pos]
  ELSE IF StopsValue(CharAt(inp, pos)) THEN [value |-> value, position |-> pos]
  ELSE IF CharAt(inp, pos) = "-" /\ CharAt(inp, pos + 1) \in {"[", ">"}
  THEN [value |-> value, position |-> pos]
  ELSE readValue(inp, pos + 1, value \o <<CharAt(inp, pos)>>)

isRelationStart(inp, pos) == CharAt(inp, pos) = "-" /\ CharAt(inp, pos + 1) = "["
isArrow(inp, pos) == CharAt(inp, pos) = "-" /\ CharAt(inp, pos + 1) = ">"

UpperChar(c) == CASE c = "o" -> "O" [] OTHER -> c
\* Variant: the word is compared as typed.
toUpperCaseNone(word) == word

toUpperCase(word) == [i \in 1..Len(word) |-> UpperChar(word[i])]
KeywordType(upper) ==
  CASE upper = <<"A", "N", "D">> -> "AND"
    [] upper = <<"O", "R">> -> "OR"
    [] OTHER -> "NOT"

SingleCharType(c) ==
  CASE c = "." -> "DOT" [] c = "(" -> "LPAREN" [] c = ")" -> "RPAREN"
    [] c = "[" -> "LBRACKET" [] c = "]" -> "RBRACKET" [] OTHER -> "DASH"

\* The body of tokenize's while loop from the position after the
\* whitespace: the tokens and the position one iteration leaves.
ScanToken(inp, start, toks) ==
  LET char == CharAt(inp, start)
  IN IF isArrow(inp, start)
     THEN [tokens |-> Append(toks, Token("ARROW", <<"-", ">">>, start)),
           position |-> start + 2]
     ELSE IF isRelationStart(inp, start)
     THEN [tokens |-> Append(toks, Token("REL_START", <<"-", "[">>, start)),
           position |-> start + 2]
     ELSE IF char = ":"
     THEN IF ~isAtEnd(inp, start + 1) /\ CharAt(inp, start + 1) = " "
          THEN [tokens |-> Append(toks, Token("VALUE_SEP", <<":", " ">>, start)),
                position |-> start + 2]
          ELSE [tokens |-> Append(toks, Token("COLON", <<":">>, start)),
                position |-> start + 1]
     ELSE IF char \in {".", "(", ")", "[", "]", "-"}
     THEN [tokens |-> Append(toks, Token(SingleCharType(char), <<char>>, start)),
           position |-> start + 1]
     ELSE IF char \in {"\"", "'"}
     THEN LET quoted == readQuotedString(inp, start)
          IN [tokens |-> Append(toks, quoted.token), position |-> quoted.position]
     ELSE
       LET read == readValue(inp, start, <<>>)
           word == read.value
       IN [tokens |->
             IF word = <<>> THEN toks
             ELSE IF toUpperCase(word) \in KEYWORDS
             THEN Append(toks, Token(KeywordType(toUpperCase(word)), word, start))
             ELSE Append(toks, Token("WORD", word, start)),
           position |-> read.position]

\* new Lexer(query) and the first statement of tokenize.
InitLex ==
  /\ input \in SeqUpTo(Alphabet, MaxInputLen)
  /\ position = 0
  /\ tokens = <<>>
  /\ lPc = "scan"
  /\ ValidatorIdle /\ WalkIdle /\ StoreIdle
  /\ QueryIdle /\ ParseIdle

\* One iteration of the while loop. The loop's only state is position and
\* tokens: an iteration that changes neither is repeated without end, which
\* lPc = "diverged" records.
LexStep ==
  /\ lPc = "scan"
  /\ ~isAtEnd(input, position)
  /\ LET start == skipWhitespace(input, position)
         after == IF isAtEnd(input, start)
                  THEN [tokens |-> tokens, position |-> start]
                  ELSE ScanToken(input, start, tokens)
     IN /\ position' = after.position
        /\ tokens' = after.tokens
        /\ lPc' = IF after.position = position /\ after.tokens = tokens
                  THEN "diverged" ELSE "scan"
  /\ UNCHANGED input
  /\ UNCHANGED <<valVars, walkVars, storeVars, queryVars, parseVars>>

\* The loop has ended: push EOF and return the tokens.
LexReturn ==
  /\ lPc = "scan"
  /\ isAtEnd(input, position)
  /\ tokens' = Append(tokens, Token("EOF", <<>>, position))
  /\ lPc' = "done"
  /\ UNCHANGED <<input, position>>
  /\ UNCHANGED <<valVars, walkVars, storeVars, queryVars, parseVars>>

LexNext == LexStep \/ LexReturn

SpecLex == InitLex /\ [][LexNext]_vars

\* C7: tokenize terminates on every input and returns tokens of which the
\* last, and only the last, is EOF.
TokenizeTerminatesWithEof ==
  /\ lPc # "diverged"
  /\ lPc = "done" =>
       /\ tokens # <<>>
       /\ \A i \in 1..Len(tokens) : tokens[i].type = "EOF" <=> i = Len(tokens)

\* A '>' that no '-' precedes has been reached and the loop makes no progress.
WitnessLoneGreaterThan ==
  /\ lPc = "diverged"
  /\ CharAt(input, position) = ">"

(***************************************************************************)
(* Storage files, loadAll, safeWrite and the commands that write           *)
(***************************************************************************)

MaxCommands == 2

\* The instance files of the storage directory, in listing order.
StorePaths == <<"storage/C/a.md", "storage/C/b.md", "storage/D/a.md", "storage/D/b.md">>
PathSet == {StorePaths[i] : i \in 1..Len(StorePaths)}

\* join(storagePath, className, `${id}.md`)
getInstanceFilePath(className, id) ==
  CASE className = "C" /\ id = IdA -> "storage/C/a.md"
    [] className = "C" /\ id = IdB -> "storage/C/b.md"
    [] className = "D" /\ id = IdA -> "storage/D/a.md"
    [] OTHER -> "storage/D/b.md"

\* The schema file of the storage: class C with the component naming
\* (required name), class D, relation R from C to D, many-to-one.
StoreSchema ==
  SchemaOf(PropDef(StringType, TRUE), <<Entry(RelR, RelDef("C", "D", "mto"))>>)

\* A file's parsed content: the instances of its spec.classes, each with
\* its relations; a file that does not exist has exists = FALSE.
Absent == [exists |-> FALSE, classes |-> <<>>]
FileOf(classes) == [exists |-> TRUE, classes |-> classes]
Stored(id, cls, components, rels) ==
  [_id |-> id, _class |-> cls, components |-> components, relations |-> rels]
RelEntry(relation, to) == [relation |-> relation, to |-> to]

\* A list item that is null (YAML ~) where a target is expected.
NullItem == <<"~">>

\* typeof target === 'object' && target._to on a null item: a TypeError.
extractPerClassRelationsThrows(instance) ==
  \E j \in 1..Len(instance.relations) : instance.relations[j].to = NullItem

\* extractPerClassRelations for one instance of a file.
extractPerClassRelations(instance, source) ==
  [j \in 1..Len(instance.relations) |->
     Edge(instance._id, instance.relations[j].relation, instance.relations[j].to, source)]

\* extractInstances for one file.
extractInstances(file, source) ==
  [classes |-> [i \in 1..Len(file.classes) |->
                  Inst(file.classes[i]._id, file.classes[i]._class, source,
                       file.classes[i].components)],
   relations |-> ConcatAll([i \in 1..Len(file.classes) |->
                              extractPerClassRelations(file.classes[i], source)])]

\* loadAll has no try/catch: an exception of extractInstances leaves it.
loadAllThrows(files) ==
  \E path \in PathSet :
    /\ files[path].exists
    /\ \E i \in 1..Len(files[path].classes) :
         extractPerClassRelationsThrows(files[path].classes[i])

\* loadAll over the schema file and the instance files that exist.
loadAll(files) ==
  LET present == SelectSeq(StorePaths, LAMBDA path : files[path].exists)
      loaded == [i \in 1..Len(present) |-> extractInstances(files[present[i]], present[i])]
  IN [schema |-> StoreSchema,
      instances |->
        [classes |-> ConcatAll([i \in 1..Len(loaded) |-> loaded[i].classes]),
         relations |-> ConcatAll([i \in 1..Len(loaded) |-> loaded[i].relations])],
      rawDocuments |->
        [present |-> TRUE,
         docs |-> <<Doc("storage/schema.yml", TRUE, 0)>>
                  \o [i \in 1..Len(present) |->
                        Doc(present[i], FALSE, Len(files[present[i]].classes))]]]

\* validate(await loadAll()).valid; a throw leaves no report.
StorageValid(files) ==
  LET result == validate(loadAll(files))
  IN ~loadAllThrows(files) /\ result.state = "returned" /\ result.valid

\* safeWrite(filePath, newContent, { isNew }): the files it leaves and the
\* valid flag it returns.
safeWrite(files, filePath, newContent, isNew) ==
  LET hasOriginal == ~isNew /\ files[filePath].exists
      originalContent == files[filePath]
      written == [files EXCEPT ![filePath] = newContent]
      result == validate(loadAll(written))
  IN IF loadAllThrows(written) \/ result.state = "threw"
     THEN [files |-> written, valid |-> FALSE, threw |-> TRUE]
     ELSE IF ~result.valid
     THEN [files |-> IF isNew THEN [written EXCEPT ![filePath] = Absent]
                     ELSE IF hasOriginal
                     THEN [written EXCEPT ![filePath] = originalContent]
                     ELSE written,
           valid |-> FALSE, threw |-> FALSE]
     ELSE [files |-> written, valid |-> TRUE, threw |-> FALSE]

\* What a command did: the file it wrote, through safeWrite or by unlink,
\* the valid flag it got back, and the storage it started on.
Command(cmd, id, path, wrote, isNew, result, content, before) ==
  [cmd |-> cmd, id |-> id, path |-> path, wrote |-> wrote, isNew |-> isNew,
   valid |-> result.valid, threw |-> result.threw, content |-> content,
   before |-> before]

\* unlink(filePath) of rm: nothing is validated.
Unlinked == [valid |-> TRUE, threw |-> FALSE]

AllStored(files) == loadAll(files).instances.classes
AllEdges(files) == loadAll(files).instances.relations

\* What new's createInstanceDocument builds: a block per component of the
\* class, with the initial values given on the command line.
NewComponents(cls, withName) ==
  IF cls = "C"
  THEN <<Entry("naming", Block(IF withName THEN <<Entry("name", Val("string"))>>
                               ELSE <<>>))>>
  ELSE <<>>

\* The instances an import file may list.
ImportInstances ==
  {Stored(id, cls, components, rels) :
     id \in {IdA, IdB}, cls \in {"C", "D"},
     components \in {<<>>, GoodComponents("C")},
     rels \in {<<>>, <<RelEntry(RelR, IdB)>>, <<RelEntry(RelR, NullItem)>>}}

\* validateInstance of import.js: the class exists, and the components
\* given carry their required properties.
validateInstance(instance, sch) ==
  /\ Has(sch.classes, instance._class)
  /\ \A i \in 1..Len(instance.components) :
       LET localName == instance.components[i].k
           values == instance.components[i].v
           classComponents == Get(sch.classes, instance._class).components
       IN (Has(classComponents, localName)
           /\ Has(sch.components, Get(classComponents, localName))) =>
            LET props == Get(sch.components, Get(classComponents, localName)).properties
            IN \A j \in 1..Len(props) :
                 props[j].v.required =>
                   (Has(values.props, props[j].k)
                    /\ ~Missing(Get(values.props, props[j].k)))

\* The storages a command may start on: files absent or holding one
\* conforming instance, the whole validating with zero errors.
StorageFiles ==
  [path \in PathSet |->
     {Absent}
     \cup {FileOf(<<Stored(id, cls, GoodComponents(cls), rels)>>) :
             id \in {IdA, IdB}, cls \in {"C", "D"},
             rels \in {<<>>, <<RelEntry(RelR, IdB)>>}}]

InitStore ==
  /\ fs \in [PathSet -> UNION {StorageFiles[path] : path \in PathSet}]
  /\ \A path \in PathSet :
       fs[path].exists =>
         path = getInstanceFilePath(fs[path].classes[1]._class, fs[path].classes[1]._id)
  /\ StorageValid(fs)
  /\ last = NoCommand
  /\ commands = 0
  /\ calls = <<>>
  /\ ValidatorIdle /\ WalkIdle /\ LexIdle
  /\ QueryIdle /\ ParseIdle

\* ontology new <id>:<class> [naming.name=...]
New ==
  \E id \in {IdA, IdB}, className \in {"C", "D"}, withName \in BOOLEAN :
    LET filePath == getInstanceFilePath(className, id)
        content == FileOf(<<Stored(id, className, NewComponents(className, withName), <<>>)>>)
        result == safeWrite(fs, filePath, content, TRUE)
    IN /\ commands < MaxCommands
       /\ ~loadAllThrows(fs)
       /\ Has(StoreSchema.classes, className)
       /\ \A i \in 1..Len(AllStored(fs)) : AllStored(fs)[i]._id # id
       /\ ~fs[filePath].exists
       /\ fs' = result.files
       /\ last' = Command("new", id, filePath, "safeWrite", TRUE, result, content, fs)
       /\ commands' = commands + 1
       /\ UNCHANGED <<calls, valVars, walkVars, lexVars, queryVars, parseVars>>

\* ontology import <file> with one instance in the file: the third
\* argument of safeWrite is the loaded data, which has no isNew.
Import ==
  \E instance \in ImportInstances :
    LET filePath == getInstanceFilePath(instance._class, instance._id)
        content == FileOf(<<instance>>)
        result == safeWrite(fs, filePath, content, FALSE)
    IN /\ commands < MaxCommands
       /\ ~loadAllThrows(fs)
       /\ validateInstance(instance, StoreSchema)
       /\ fs' = result.files
       /\ last' = Command("import", instance._id, filePath, "safeWrite", FALSE,
                          result, content, fs)
       /\ commands' = commands + 1
       /\ UNCHANGED <<calls, valVars, walkVars, lexVars, queryVars, parseVars>>

\* ontology link <from>:<class> R <to>:<class>
Link ==
  \E fromId \in {IdA, IdB}, toId \in {IdA, IdB}, fromClass \in {"C", "D"},
     toClass \in {"C", "D"} :
    LET relationSchema == Get(StoreSchema.relations, RelR)
        fromMatches == SelectSeq(AllStored(fs), LAMBDA i : i._id = fromId)
        toMatches == SelectSeq(AllStored(fs), LAMBDA i : i._id = toId)
        filePath == fromMatches[1]._source
        file == fs[filePath]
        first == Min({i \in 1..Len(file.classes) : file.classes[i]._id = fromId})
        content ==
          FileOf([i \in 1..Len(file.classes) |->
                    IF i = first
                    THEN [file.classes[i] EXCEPT
                            !.relations = Append(@, RelEntry(RelR, toId))]
                    ELSE file.classes[i]])
        result == safeWrite(fs, filePath, content, FALSE)
    IN /\ commands < MaxCommands
       /\ ~loadAllThrows(fs)
       /\ relationSchema.domain = fromClass
       /\ relationSchema.range = toClass
       /\ Len(fromMatches) = 1
       /\ Len(toMatches) = 1
       /\ \A i \in 1..Len(AllEdges(fs)) :
            ~(/\ AllEdges(fs)[i]._from = fromId
              /\ AllEdges(fs)[i]._relation = RelR
              /\ AllEdges(fs)[i]._to = toId)
       /\ fs' = result.files
       /\ last' = Command("link", fromId, filePath, "safeWrite", FALSE, result,
                          content, fs)
       /\ commands' = commands + 1
       /\ UNCHANGED <<calls, valVars, walkVars, lexVars, queryVars, parseVars>>

\* ontology rm <id>: a file left without instances is unlinked, any
\* other is rewritten through safeWrite.
Rm ==
  \E id \in {IdA, IdB} :
    LET found == SelectSeq(AllStored(fs), LAMBDA i : i._id = id)
        filePath == found[1]._source
        file == fs[filePath]
        remaining == SelectSeq(file.classes, LAMBDA inst : inst._id # id)
        result == safeWrite(fs, filePath, FileOf(remaining), FALSE)
    IN /\ commands < MaxCommands
       /\ ~loadAllThrows(fs)
       /\ found # <<>>
       /\ IF remaining = <<>>
          THEN /\ fs' = [fs EXCEPT ![filePath] = Absent]
               /\ last' = Command("rm", id, filePath, "unlink", FALSE, Unlinked, Absent, fs)
          ELSE /\ fs' = result.files
               /\ last' = Command("rm", id, filePath, "safeWrite", FALSE, result,
                                  FileOf(remaining), fs)
       /\ commands' = commands + 1
       /\ UNCHANGED <<calls, valVars, walkVars, lexVars, queryVars, parseVars>>

StoreNext == New \/ Import \/ Link \/ Rm

SpecStore == InitStore /\ [][StoreNext]_vars

(***************************************************************************)
(* Two safeWrite calls on one file, interleaved at their awaits            *)
(***************************************************************************)

\* Two processes of the command line, each in one safeWrite call on the
\* file of instance a.
Callers == {"first", "second"}
RacePath == "storage/C/a.md"

\* The contents written: a of class C with its name, with or without an
\* edge R to b, and a without components or with an edge R to itself.
RaceContents ==
  {FileOf(<<Stored(IdA, "C", components, rels)>>) :
     components \in {<<>>, GoodComponents("C")},
     rels \in {<<>>, <<RelEntry(RelR, IdB)>>, <<RelEntry(RelR, IdA)>>}}

\* A call before its first statement: its arguments and local variables.
Call(newContent) ==
  [pc |-> "read", newContent |-> newContent, hasOriginal |-> FALSE,
   originalContent |-> Absent, valid |-> FALSE]

InitRace ==
  /\ fs \in {[path \in PathSet |->
                IF path = RacePath THEN FileOf(<<Stored(IdA, "C", GoodComponents("C"), rels)>>)
                ELSE IF path = "storage/D/b.md"
                THEN FileOf(<<Stored(IdB, "D", <<>>, <<>>)>>)
                ELSE Absent] :
             rels \in {<<>>, <<RelEntry(RelR, IdB)>>}}
  /\ calls \in [Callers -> {Call(newContent) : newContent \in RaceContents}]
  /\ last = NoCommand
  /\ commands = 0
  /\ ValidatorIdle /\ WalkIdle /\ LexIdle
  /\ QueryIdle /\ ParseIdle

RaceUnchanged ==
  UNCHANGED <<last, commands, valVars, walkVars, lexVars, queryVars, parseVars>>

\* if (!isNew && existsSync(filePath)) originalContent = await readFile(...)
ReadOriginal(c) ==
  /\ calls[c].pc = "read"
  /\ calls' = [calls EXCEPT ![c].pc = "write",
                            ![c].hasOriginal = fs[RacePath].exists,
                            ![c].originalContent = fs[RacePath]]
  /\ UNCHANGED fs
  /\ RaceUnchanged

\* await writeFile(filePath, newContent, 'utf-8')
WriteNew(c) ==
  /\ calls[c].pc = "write"
  /\ fs' = [fs EXCEPT ![RacePath] = calls[c].newContent]
  /\ calls' = [calls EXCEPT ![c].pc = "validate"]
  /\ RaceUnchanged

\* const data = await loadAll(); const result = validate(data); and the
\* return of valid:true.
ReloadAndValidate(c) ==
  /\ calls[c].pc = "validate"
  /\ calls' = [calls EXCEPT
                 ![c].pc = IF StorageValid(fs) THEN "returned" ELSE "rollback",
                 ![c].valid = StorageValid(fs)]
  /\ UNCHANGED fs
  /\ RaceUnchanged

\* await writeFile(filePath, originalContent, 'utf-8') and the return of
\* valid:false.
Rollback(c) ==
  /\ calls[c].pc = "rollback"
  /\ fs' = IF calls[c].hasOriginal
           THEN [fs EXCEPT ![RacePath] = calls[c].originalContent]
           ELSE fs
  /\ calls' = [calls EXCEPT ![c].pc = "returned"]
  /\ RaceUnchanged

RaceNext ==
  \E c \in Callers :
    ReadOriginal(c) \/ WriteNew(c) \/ ReloadAndValidate(c) \/ Rollback(c)

SpecRace == InitRace /\ [][RaceNext]_vars

\* The call has returned valid:true.
Committed(c) == calls[c].pc = "returned" /\ calls[c].valid

\* A rollback replaces the content that another call committed.
RollbackOverCommit(c, d) ==
  /\ Rollback(d)
  /\ Committed(c)
  /\ fs[RacePath] = calls[c].newContent
  /\ fs'[RacePath] # calls[c].newContent

\* A call validates content that another call wrote and has not committed.
ValidatesUncommitted(c, d) ==
  /\ ReloadAndValidate(c)
  /\ fs[RacePath] # calls[c].newContent
  /\ fs[RacePath] = calls[d].newContent
  /\ calls[d].pc \in {"validate", "rollback"}

\* C29: no rollback of one call overwrites content that the other call
\* committed by returning valid:true, and no call's validation reads
\* content that the other call wrote and has not committed.
InterleavedCallsIsolated ==
  [][\A c, d \in Callers :
       c # d => ~RollbackOverCommit(c, d) /\ ~ValidatesUncommitted(c, d)]_vars

\* Both calls have returned, the first with valid:true and the second
\* with valid:false, and the file holds what the second call read before
\* the first one wrote, not the content the first call committed.
WitnessCommitLostToRollback ==
  /\ Committed("first")
  /\ calls["second"].pc = "returned" /\ ~calls["second"].valid
  /\ fs[RacePath] # calls["first"].newContent
  /\ fs[RacePath] = calls["second"].originalContent

(***************************************************************************)
(* Properties of safeWrite and of the commands                             *)
(***************************************************************************)

\* C5: after a safeWrite that returned valid:false the file is as it was
\* before the call (absent if it did not exist), and after one that
\* returned valid:true it holds the new content; whatever the caller passed.
SafeWriteAllOrNothing ==
  last.wrote = "safeWrite" =>
    IF last.valid THEN fs[last.path] = last.content
    ELSE fs[last.path] = last.before[last.path]

\* import wrote a file that did not exist, safeWrite returned valid:false,
\* and the file is there.
WitnessNewFileNotRolledBack ==
  /\ last.cmd = "import"
  /\ ~last.valid
  /\ ~last.before[last.path].exists
  /\ fs[last.path].exists

\* C28: when the reload after the write of safeWrite ends with an
\* exception, the file is as it was before the call: the new content is
\* on disk only after valid:true.
ReloadExceptionRestoresFile ==
  (last.wrote = "safeWrite" /\ last.threw) =>
    fs[last.path] = last.before[last.path]

\* import rewrote an existing file with an instance whose relation list
\* holds a null item, the reload ended with an exception, and the file
\* holds the new content.
WitnessNewContentAfterException ==
  /\ last.cmd = "import"
  /\ last.threw
  /\ last.before[last.path].exists
  /\ last.before[last.path] # last.content
  /\ fs[last.path] = last.content

\* An edge of another instance points at the instance.
Referenced(files, id) ==
  \E i \in 1..Len(AllEdges(files)) :
     AllEdges(files)[i]._to = id /\ AllEdges(files)[i]._from # id

\* C6: a command started on a storage that validates with zero errors
\* ends with a storage that validates with zero errors, and rm of an
\* instance that an edge of another instance references leaves the storage
\* unchanged.
CommandsKeepStorageValid ==
  last.cmd # "none" =>
    /\ StorageValid(last.before) => StorageValid(fs)
    /\ (last.cmd = "rm" /\ Referenced(last.before, last.id)) => fs = last.before

\* rm of a referenced instance, on a storage that validated, has deleted
\* its file and left an edge without target.
WitnessRmLeavesDanglingEdge ==
  /\ last.cmd = "rm"
  /\ StorageValid(last.before)
  /\ Referenced(last.before, last.id)
  /\ ~fs[last.path].exists
  /\ ~StorageValid(fs)

(***************************************************************************)
(* The query evaluator (src/src/query/parser.js, from line 232) and its    *)
(* matchers (src/unnamed/part_012)                                         *)
(***************************************************************************)

\* Root keys of a class instance and of a relation instance.
KId == <<"_", "i", "d">>
KClass == <<"_", "c">>
KSource == <<"_", "s">>
KName == <<"n">>
KFrom == <<"_", "f">>
KTo == <<"_", "t">>
KRelation == <<"_", "r">>
KRole == <<"r">>

\* instance[key]: undefined when the key is absent.
Prop(obj, key) == IF Has(obj, key) THEN Get(obj, key) ELSE Undefined

\* String.prototype.toLowerCase over the letters of the model.
LowerChar(c) ==
  IF c = "A" THEN "a" ELSE IF c = "B" THEN "b" ELSE IF c = "O" THEN "o" ELSE c
toLowerCase(s) == [i \in 1..Len(s) |-> LowerChar(s[i])]

\* String.prototype.includes.
includes(s, p) ==
  \E i \in 0..(Len(s) - Len(p)) : SubSeq(s, i + 1, i + Len(p)) = p

\* A value that is a plain object, such as the components of an instance.
Obj == [kind |-> "object", s |-> <<>>]
ObjectText == <<"[", "o", "b", "j", "e", "c", "t", " ", "O", "b", "j", "e", "c", "t", "]">>

\* String(value) of a string value and of a plain object.
String(v) == IF v.kind = "object" THEN ObjectText ELSE v.s

\* Variant: the comparison keeps the case of both strings.
wildcardContainsCaseSensitive(fieldValue, pattern) ==
  IF fieldValue.kind \in {"null", "undefined"} THEN FALSE
  ELSE includes(String(fieldValue), pattern.s)

wildcardContains(fieldValue, pattern) ==
  IF fieldValue.kind \in {"null", "undefined"} THEN FALSE
  ELSE includes(toLowerCase(String(fieldValue)), toLowerCase(pattern.s))

\* key.startsWith('_') && key !== '_class' && key !== '_id'
IsInternalKey(key) ==
  /\ Len(key) > 0 /\ key[1] = "_"
  /\ key # KClass /\ key # KId

matchAnyProperty(instance, pattern) ==
  \E i \in 1..Len(instance) :
    /\ ~IsInternalKey(instance[i].k)
    /\ wildcardContains(instance[i].v, pattern)

evaluateClassMatchBoolean(node, instance) ==
  IF node.id # Null /\ Prop(instance, KId) # node.id THEN FALSE
  ELSE IF node.className # Null /\ Prop(instance, KClass) # node.className
    THEN FALSE
  ELSE IF node.value = Null THEN TRUE
  ELSE IF node.property # Null
    THEN wildcardContains(Prop(instance, node.property.s), node.value)
  ELSE matchAnyProperty(instance, node.value)

\* The body of the loop over relations: does rel pass the node's filters?
RelationPasses(node, rel) ==
  IF node.relationType # Null /\ Prop(rel, KRelation) # node.relationType
    THEN FALSE
  ELSE IF node.qualifier # Null
    THEN /\ Has(rel, node.qualifier.s)
         /\ node.value # Null =>
              wildcardContains(Prop(rel, node.qualifier.s), node.value)
  ELSE node.value # Null => wildcardContains(Prop(rel, KTo), node.value)

\* Variant: each filter may be passed by a different relation.
evaluateRelationMatchAcrossEdges(node, classInstance, rels) ==
  IF node.fromId # Null /\ Prop(classInstance, KId) # node.fromId THEN FALSE
  ELSE IF node.fromClass # Null /\ Prop(classInstance, KClass) # node.fromClass
    THEN FALSE
  ELSE /\ \E i \in 1..Len(rels) :
            RelationPasses([node EXCEPT !.qualifier = Null, !.value = Null],
                           rels[i])
       /\ \E i \in 1..Len(rels) :
            RelationPasses([node EXCEPT !.relationType = Null], rels[i])

evaluateRelationMatchBoolean(node, classInstance, rels) ==
  IF node.fromId # Null /\ Prop(classInstance, KId) # node.fromId THEN FALSE
  ELSE IF node.fromClass # Null /\ Prop(classInstance, KClass) # node.fromClass
    THEN FALSE
  ELSE \E i \in 1..Len(rels) : RelationPasses(node, rels[i])

RECURSIVE evaluateBoolean(_, _, _)
evaluateBoolean(node, classInstance, rels) ==
  CASE node.type = "AND" ->
         /\ evaluateBoolean(node.kids[1], classInstance, rels)
         /\ evaluateBoolean(node.kids[2], classInstance, rels)
    [] node.type = "OR" ->
         \/ evaluateBoolean(node.kids[1], classInstance, rels)
         \/ evaluateBoolean(node.kids[2], classInstance, rels)
    [] node.type = "NOT" -> ~evaluateBoolean(node.kids[1], classInstance, rels)
    [] node.type = "CLASS_MATCH" ->
         evaluateClassMatchBoolean(node.leaf, classInstance)
    [] node.type = "RELATION_MATCH" ->
         evaluateRelationMatchBoolean(node.leaf, classInstance, rels)

\* { property, value, lineNumber: 0, matchedText }
PropertyMatch(property, value, matchedText) ==
  [property |-> property, value |-> value, matchedText |-> matchedText]

\* The all-properties loop of findPropertyMatches over Object.entries.
RECURSIVE AnyPropertyMatches(_, _)
AnyPropertyMatches(entries, value) ==
  IF entries = <<>> THEN <<>>
  ELSE LET e == Head(entries)
           rest == AnyPropertyMatches(Tail(entries), value)
       IN IF IsInternalKey(e.k) THEN rest
          ELSE IF wildcardContains(e.v, value)
            THEN <<PropertyMatch(e.k, String(e.v), value.s)>> \o rest
          ELSE rest

findPropertyMatches(node, instance) ==
  IF node.id # Null /\ Prop(instance, KId) # node.id THEN <<>>
  ELSE IF node.className # Null /\ Prop(instance, KClass) # node.className
    THEN <<>>
  ELSE IF node.property # Null /\ node.value = Null
    THEN LET propValue == Prop(instance, node.property.s)
         IN IF propValue.kind = "str"
              THEN <<PropertyMatch(node.property.s, String(propValue), <<>>)>>
              ELSE <<>>
  ELSE IF node.value = Null THEN <<>>
  ELSE IF node.property # Null
    THEN LET propValue == Prop(instance, node.property.s)
         IN IF wildcardContains(propValue, node.value)
              THEN <<PropertyMatch(node.property.s, String(propValue),
                                   node.value.s)>>
              ELSE <<>>
  ELSE AnyPropertyMatches(instance, node.value)

\* A SearchResult: a ClassSearchResult leaves the relation fields empty, a
\* RelationSearchResult the matches; hasTo is FALSE for toInstance: null.
ClassSearchResult(instance, matches) ==
  [type |-> "class", instance |-> instance, matches |-> matches,
   relation |-> <<>>, hasTo |-> FALSE, toInstance |-> <<>>,
   matchedQualifier |-> Null, matchedValue |-> Null]

RelationSearchResult(rel, fromInstance, hasTo, toInstance, matchedQualifier, matchedValue) ==
  [type |-> "relation", instance |-> fromInstance, matches |-> <<>>,
   relation |-> rel, hasTo |-> hasTo, toInstance |-> toInstance,
   matchedQualifier |-> matchedQualifier, matchedValue |-> matchedValue]

RECURSIVE collectClassMatchesRecursive(_, _)
\* Variant: a NOT node collects from its operand like any other node.
collectClassMatchesThroughNot(node, instance) ==
  CASE node.type \in {"AND", "OR"} ->
         collectClassMatchesRecursive(node.kids[1], instance)
           \o collectClassMatchesRecursive(node.kids[2], instance)
    [] node.type = "NOT" -> collectClassMatchesRecursive(node.kids[1], instance)
    [] node.type = "CLASS_MATCH" ->
         LET matches == findPropertyMatches(node.leaf, instance)
         IN IF Len(matches) > 0
              THEN <<ClassSearchResult(instance, matches)>>
              ELSE <<>>
    [] OTHER -> <<>>

\* Variant: an AND/OR node stops at the first side that yields an entry.
collectClassMatchesFirstSide(node, instance) ==
  CASE node.type \in {"AND", "OR"} ->
         LET l == collectClassMatchesRecursive(node.kids[1], instance)
         IN IF l # <<>> THEN l
            ELSE collectClassMatchesRecursive(node.kids[2], instance)
    [] node.type = "NOT" -> <<>>
    [] node.type = "CLASS_MATCH" ->
         LET matches == findPropertyMatches(node.leaf, instance)
         IN IF Len(matches) > 0
              THEN <<ClassSearchResult(instance, matches)>>
              ELSE <<>>
    [] OTHER -> <<>>

collectClassMatchesRecursive(node, instance) ==
  CASE node.type \in {"AND", "OR"} ->
         collectClassMatchesRecursive(node.kids[1], instance)
           \o collectClassMatchesRecursive(node.kids[2], instance)
    [] node.type = "NOT" -> <<>>
    [] node.type = "CLASS_MATCH" ->
         LET matches == findPropertyMatches(node.leaf, instance)
         IN IF Len(matches) > 0
              THEN <<ClassSearchResult(instance, matches)>>
              ELSE <<>>
    [] OTHER -> <<>>

collectClassMatches(astNode, instance) ==
  collectClassMatchesRecursive(astNode, instance)

\* instancesById.get(id): the last instance set under the id, or none.
ById(classes, id) == {i \in 1..Len(classes) : Prop(classes[i], KId) = id}
HasById(classes, id) == ById(classes, id) # {}
GetById(classes, id) ==
  LET S == ById(classes, id)
  IN classes[CHOOSE i \in S : \A j \in S : j <= i]

RECURSIVE findRelationMatches(_, _, _, _)
findRelationMatches(node, classInstance, rels, classes) ==
  IF node.fromId # Null /\ Prop(classInstance, KId) # node.fromId THEN <<>>
  ELSE IF node.fromClass # Null /\ Prop(classInstance, KClass) # node.fromClass
    THEN <<>>
  ELSE IF rels = <<>> THEN <<>>
  ELSE
    LET rel == Head(rels)
        rest == findRelationMatches(node, classInstance, Tail(rels), classes)
        to == Prop(rel, KTo)
        hasTo == HasById(classes, to)
        toInstance == IF hasTo THEN GetById(classes, to) ELSE <<>>
        matchedQualifier == node.qualifier
        matchedValue ==
          IF node.qualifier # Null
            THEN IF node.value # Null
                   THEN Str(String(Prop(rel, node.qualifier.s)))
                   ELSE Null
          ELSE IF node.value # Null THEN to
          ELSE Null
    IN IF RelationPasses(node, rel)
         THEN <<RelationSearchResult(rel, classInstance, hasTo, toInstance,
                                     matchedQualifier, matchedValue)>>
                \o rest
         ELSE rest

RECURSIVE collectRelationMatchesRecursive(_, _, _, _)
collectRelationMatchesRecursive(node, classInstance, rels, classes) ==
  CASE node.type \in {"AND", "OR"} ->
         collectRelationMatchesRecursive(node.kids[1], classInstance, rels,
                                         classes)
           \o collectRelationMatchesRecursive(node.kids[2], classInstance,
                                              rels, classes)
    [] node.type = "NOT" -> <<>>
    [] node.type = "RELATION_MATCH" ->
         findRelationMatches(node.leaf, classInstance, rels, classes)
    [] OTHER -> <<>>

collectRelationMatches(astNode, classInstance, rels, classes) ==
  collectRelationMatchesRecursive(astNode, classInstance, rels, classes)

\* relationsByFrom.get(id) || []: the relations whose _from is id, in order.
RelationsByFrom(rels, id) == SelectSeq(rels, LAMBDA r : Prop(r, KFrom) = id)

(***************************************************************************)
(* findMatches on bounded queries, instances and relations                 *)
(***************************************************************************)

MaxQueryInstances == 2
MaxQueryEdges == 2

QA == Str(<<"a">>)
QB == Str(<<"b">>)
ClassA == Str(<<"A">>)
ClassB == Str(<<"B">>)

\* A class instance as the loader hands it over: _class, _id, _source and,
\* unless name is undefined, a further root property.
QInstance(id, class, name) ==
  <<[k |-> KClass, v |-> class], [k |-> KId, v |-> id],
    [k |-> KSource, v |-> QA]>>
    \o (IF name = Undefined THEN <<>> ELSE <<[k |-> KName, v |-> name]>>)

\* A relation instance, with the qualifier role unless it is undefined.
QEdge(from, rel, to, role) ==
  <<[k |-> KFrom, v |-> from], [k |-> KRelation, v |-> rel],
    [k |-> KTo, v |-> to]>>
    \o (IF role = Undefined THEN <<>> ELSE <<[k |-> KRole, v |-> role]>>)

QInstances ==
  {QInstance(QA, ClassA, Undefined), QInstance(QA, ClassB, Str(<<"b">>)),
   QInstance(QB, ClassB, Str(<<"a", "B">>)), QInstance(QB, ClassB, Null),
   QInstance(QB, ClassB, Str(<<"b">>)), QInstance(QB, ClassA, Str(<<"A">>))}

QEdges ==
  {QEdge(QA, Str(RelR), QB, Undefined), QEdge(QA, Str(RelS), QA, Str(<<"a">>)),
   QEdge(QA, Str(RelR), QA, Str(<<"b">>)), QEdge(QB, Str(RelR), QA, Null)}

ClassLeaves ==
  {ClassMatch(id, class, property, value) :
     id \in {Null, QA}, class \in {Null, ClassA},
     property \in {Null, Str(KName)},
     value \in {Null, Str(<<"a">>), Str(<<"B">>)}}

FewClassLeaves ==
  {ClassMatch(Null, Null, Null, Str(<<"a">>)),
   ClassMatch(Null, Null, Str(KName), Str(<<"B">>)),
   ClassMatch(QA, Null, Null, Null),
   ClassMatch(Null, ClassB, Null, Null),
   ClassMatch(Null, Null, Str(KName), Null)}

RelationLeaves ==
  {RelationMatch(fromId, Null, relationType, qualifier, value) :
     fromId \in {Null, QA}, relationType \in {Null, Str(RelR)},
     qualifier \in {Null, Str(KRole)}, value \in {Null, Str(<<"a">>)}}
  \cup {RelationMatch(Null, ClassA, Null, Null, Null),
        RelationMatch(QB, ClassA, Str(RelR), Null, Null)}

FewRelationLeaves ==
  {RelationMatch(Null, Null, Str(RelR), Null, Null),
   RelationMatch(Null, Null, Null, Str(KRole), Str(<<"a">>)),
   RelationMatch(Null, Null, Null, Null, Str(<<"a">>)),
   ClassMatch(Null, Null, Null, Str(<<"b">>))}

\* The ASTs over a set of leaves: a leaf, its negation, and the two-leaf
\* combinations X AND Y, X OR Y, X AND NOT Y and NOT (X AND Y) over a
\* smaller set.
Asts(leaves, few) ==
  leaves \cup {Not(x) : x \in leaves}
    \cup {And(x, y) : x \in few, y \in few}
    \cup {Or(x, y) : x \in few, y \in few}
    \cup {And(x, Not(y)) : x \in few, y \in few}
    \cup {Not(And(x, y)) : x \in few, y \in few}

InitQueryClasses ==
  /\ ast \in Asts(ClassLeaves, FewClassLeaves)
  /\ qClasses \in SeqUpTo(QInstances, MaxQueryInstances)
  /\ qRelations = <<>>

InitQueryRelations ==
  /\ ast \in Asts(RelationLeaves, FewRelationLeaves)
  /\ qClasses \in SeqUpTo({QInstance(QA, ClassA, Undefined),
                           QInstance(QB, ClassB, Str(<<"b">>))},
                          MaxQueryInstances)
  /\ qRelations \in SeqUpTo(QEdges, MaxQueryEdges)

InitQuery ==
  /\ InitQueryClasses \/ InitQueryRelations
  /\ results = <<>> /\ qNext = 1 /\ qPc = "loop"
  /\ ValidatorIdle /\ WalkIdle /\ LexIdle /\ StoreIdle /\ ParseIdle

\* One iteration of the loop over instances.classes.
FindStep ==
  /\ qPc = "loop" /\ qNext <= Len(qClasses)
  /\ LET classInstance == qClasses[qNext]
         classRelations == RelationsByFrom(qRelations, Prop(classInstance, KId))
     IN results' =
          IF evaluateBoolean(ast, classInstance, classRelations)
            THEN results \o collectClassMatches(ast, classInstance)
                   \o collectRelationMatches(ast, classInstance,
                                             classRelations, qClasses)
            ELSE results
  /\ qNext' = qNext + 1
  /\ UNCHANGED <<ast, qClasses, qRelations, qPc>>
  /\ UNCHANGED <<valVars, walkVars, lexVars, storeVars, parseVars>>

\* return results
FindReturn ==
  /\ qPc = "loop" /\ qNext > Len(qClasses)
  /\ qPc' = "done"
  /\ UNCHANGED <<ast, qClasses, qRelations, results, qNext>>
  /\ UNCHANGED <<valVars, walkVars, lexVars, storeVars, parseVars>>

findMatches == FindStep \/ FindReturn

SpecQuery == InitQuery /\ [][findMatches]_vars

(***************************************************************************)
(* Properties of findMatches                                               *)
(***************************************************************************)

\* The leaves of an AST that are not under a NOT, left to right.
RECURSIVE LeavesOutsideNot(_)
LeavesOutsideNot(node) ==
  CASE node.type \in {"AND", "OR"} ->
         LeavesOutsideNot(node.kids[1]) \o LeavesOutsideNot(node.kids[2])
    [] node.type = "NOT" -> <<>>
    [] OTHER -> <<node>>

\* The number of positions of a sequence that satisfy a predicate.
CountOf(seq, P(_)) == Cardinality({i \in 1..Len(seq) : P(seq[i])})

OutgoingEdges(x) == RelationsByFrom(qRelations, Prop(x, KId))
Included(x) == evaluateBoolean(ast, x, OutgoingEdges(x))
\* How many times the class list holds x.
Copies(x) == CountOf(qClasses, LAMBDA c : c = x)
ClassEntries(x) ==
  CountOf(results, LAMBDA r : r.type = "class" /\ r.instance = x)
RelationEntries(x) ==
  CountOf(results, LAMBDA r : r.type = "relation" /\ r.instance = x)

\* s contains p, ignoring case: some window of s spells p.
ContainsIgnoringCase(s, p) ==
  \E u, v \in SeqUpTo({"a", "b", "A", "B", "R", "S", "_"}, Len(s)) :
    /\ Len(u) + Len(p) + Len(v) = Len(s)
    /\ \A i \in 1..Len(s) :
         LowerChar(s[i]) =
           LowerChar((u \o p \o v)[i])

\* A class leaf has something to show for x: its id/class filters pass and
\* either its value is found (in its property, or in some non-internal
\* property), or it has a property and no value and x holds a non-null value
\* under that property.
HasValueAt(x, key) == Has(x, key) /\ Get(x, key).kind = "str"
FiltersPass(leaf, x) ==
  /\ leaf.id # Null => Prop(x, KId) = leaf.id
  /\ leaf.className # Null => Prop(x, KClass) = leaf.className
Shows(leaf, x) ==
  /\ FiltersPass(leaf, x)
  /\ IF leaf.value = Null
       THEN leaf.property # Null /\ HasValueAt(x, leaf.property.s)
     ELSE IF leaf.property # Null
       THEN /\ HasValueAt(x, leaf.property.s)
            /\ ContainsIgnoringCase(Get(x, leaf.property.s).s, leaf.value.s)
     ELSE \E i \in 1..Len(x) :
            /\ x[i].k \in {KClass, KId} \/ x[i].k[1] # "_"
            /\ x[i].v.kind = "str"
            /\ ContainsIgnoringCase(x[i].v.s, leaf.value.s)

\* An outgoing edge satisfies a relation leaf.
EdgeSatisfies(leaf, e) ==
  /\ leaf.relationType # Null => Prop(e, KRelation) = leaf.relationType
  /\ leaf.qualifier # Null => Has(e, leaf.qualifier.s)
  /\ leaf.value # Null =>
       IF leaf.qualifier # Null
         THEN /\ Get(e, leaf.qualifier.s).kind = "str"
              /\ ContainsIgnoringCase(Get(e, leaf.qualifier.s).s, leaf.value.s)
         ELSE ContainsIgnoringCase(Get(e, KTo).s, leaf.value.s)
FromPasses(leaf, x) ==
  /\ leaf.fromId # Null => Prop(x, KId) = leaf.fromId
  /\ leaf.fromClass # Null => Prop(x, KClass) = leaf.fromClass
SatisfyingEdges(leaf, x) ==
  IF FromPasses(leaf, x)
    THEN CountOf(OutgoingEdges(x), LAMBDA e : EdgeSatisfies(leaf, e))
    ELSE 0

IsClassLeaf(n) == n.type = "CLASS_MATCH"
IsRelationLeaf(n) == n.type = "RELATION_MATCH"

\* The satisfying edges of x summed over the relation leaves of a sequence.
RECURSIVE SatisfyingEdgesOfAll(_, _)
SatisfyingEdgesOfAll(leaves, x) ==
  IF leaves = <<>> THEN 0
  ELSE (IF IsRelationLeaf(Head(leaves))
          THEN SatisfyingEdges(Head(leaves).leaf, x) ELSE 0)
         + SatisfyingEdgesOfAll(Tail(leaves), x)

\* C11 as stated: when findMatches has returned, every included instance
\* has at least one class entry per class-match leaf outside NOT that matches
\* it (also a leaf that only filters on id or class) and at least one
\* relation entry per relation-match leaf outside NOT that matches it.
EntryForEveryMatchingLeaf ==
  qPc = "done" =>
    \A k \in 1..Len(qClasses) :
      LET x == qClasses[k]
      IN Included(x) =>
           /\ ClassEntries(x) >=
                Copies(x) * CountOf(LeavesOutsideNot(ast),
                    LAMBDA n : IsClassLeaf(n)
                                 /\ evaluateBoolean(n, x, OutgoingEdges(x)))
           /\ RelationEntries(x) >=
                Copies(x) * CountOf(LeavesOutsideNot(ast),
                    LAMBDA n : IsRelationLeaf(n)
                                 /\ evaluateBoolean(n, x, OutgoingEdges(x)))

\* C11 amended: when findMatches has returned, every included instance has
\* exactly one class entry per class-match leaf outside NOT that has
\* something to show for it (a leaf that only filters on id or class, or
\* that names a property the instance lacks, has nothing to show and yields
\* no entry), and exactly one relation entry per relation-match leaf outside
\* NOT and outgoing edge satisfying that leaf; an instance that is not
\* included has no entry.
EntryForEveryShowingLeaf ==
  qPc = "done" =>
    \A k \in 1..Len(qClasses) :
      LET x == qClasses[k]
      IN IF Included(x)
           THEN /\ ClassEntries(x) =
                     Copies(x) * CountOf(LeavesOutsideNot(ast),
                         LAMBDA n : IsClassLeaf(n) /\ Shows(n.leaf, x))
                /\ RelationEntries(x) =
                     Copies(x) * SatisfyingEdgesOfAll(LeavesOutsideNot(ast), x)
           ELSE ClassEntries(x) = 0 /\ RelationEntries(x) = 0

\* Two leaves of an OR both show a property of one instance: two entries.
WitnessTwoEntriesForOneInstance ==
  /\ qPc = "done" /\ ast.type = "OR"
  /\ \E k \in 1..Len(qClasses) :
       /\ Copies(qClasses[k]) = 1
       /\ ClassEntries(qClasses[k]) = 2

\* The entries one leaf yields for x: its class entry, or its relation
\* entries.
EntriesOfLeaf(n, x) ==
  IF IsClassLeaf(n)
    THEN (IF findPropertyMatches(n.leaf, x) # <<>>
            THEN <<ClassSearchResult(x, findPropertyMatches(n.leaf, x))>>
            ELSE <<>>)
    ELSE findRelationMatches(n.leaf, x, OutgoingEdges(x), qClasses)

RECURSIVE EntriesOfLeaves(_, _)
EntriesOfLeaves(leaves, x) ==
  IF leaves = <<>> THEN <<>>
  ELSE EntriesOfLeaf(Head(leaves), x) \o EntriesOfLeaves(Tail(leaves), x)

\* The entries of x: those of the class leaves outside NOT, then those of
\* the relation leaves outside NOT.
EntriesOutsideNot(x) ==
  EntriesOfLeaves(SelectSeq(LeavesOutsideNot(ast), IsClassLeaf), x)
    \o EntriesOfLeaves(SelectSeq(LeavesOutsideNot(ast), IsRelationLeaf), x)

RECURSIVE EntriesOfIncluded(_)
EntriesOfIncluded(classes) ==
  IF classes = <<>> THEN <<>>
  ELSE (IF Included(Head(classes)) THEN EntriesOutsideNot(Head(classes))
        ELSE <<>>)
         \o EntriesOfIncluded(Tail(classes))

HasEntry(x) == \E i \in 1..Len(results) : results[i].instance = x

\* C12: when findMatches has returned, the results are, instance by
\* instance, exactly the entries of the leaves that are not under a NOT, so
\* a query that is a NOT returns nothing; and for a query X AND NOT Y an
\* instance has entries only if X matches it and Y does not, and then its
\* entries are those of X.
NotGuardsWithoutEntries ==
  qPc = "done" =>
    /\ results = EntriesOfIncluded(qClasses)
    /\ ast.type = "NOT" => results = <<>>
    /\ (ast.type = "AND" /\ ast.kids[2].type = "NOT") =>
         LET X == ast.kids[1]
             Y == ast.kids[2].kids[1]
         IN \A k \in 1..Len(qClasses) :
              LET x == qClasses[k]
              IN /\ HasEntry(x) =>
                      /\ evaluateBoolean(X, x, OutgoingEdges(x))
                      /\ ~evaluateBoolean(Y, x, OutgoingEdges(x))
                 /\ ~evaluateBoolean(Y, x, OutgoingEdges(x)) =>
                      \A i \in 1..Len(results) :
                        results[i].instance = x =>
                          \E j \in 1..Len(EntriesOfLeaf(X, x)) :
                            results[i] = EntriesOfLeaf(X, x)[j]

\* X AND NOT Y over two instances that X both matches: Y excludes the first,
\* the second is returned with X's entries.
WitnessNotExcludesOneInstance ==
  /\ qPc = "done" /\ ast.type = "AND" /\ ast.kids[2].type = "NOT"
  /\ Len(qClasses) = 2 /\ qClasses[1] # qClasses[2]
  /\ evaluateBoolean(ast.kids[1], qClasses[1], OutgoingEdges(qClasses[1]))
  /\ evaluateBoolean(ast.kids[2].kids[1], qClasses[1],
                     OutgoingEdges(qClasses[1]))
  /\ findPropertyMatches(ast.kids[1].leaf, qClasses[1]) # <<>>
  /\ ~HasEntry(qClasses[1])
  /\ HasEntry(qClasses[2])

\* What C16 says a class-match leaf evaluates to on x.
ClassLeafHolds(leaf, x) ==
  IF \/ leaf.id # Null /\ Prop(x, KId) # leaf.id
     \/ leaf.className # Null /\ Prop(x, KClass) # leaf.className
    THEN FALSE
  ELSE IF leaf.value = Null THEN TRUE
  ELSE IF leaf.property # Null
    THEN /\ HasValueAt(x, leaf.property.s)
         /\ ContainsIgnoringCase(Get(x, leaf.property.s).s, leaf.value.s)
  ELSE \E i \in 1..Len(x) :
         /\ x[i].k[1] # "_" \/ x[i].k \in {KClass, KId}
         /\ x[i].v.kind = "str"
         /\ ContainsIgnoringCase(x[i].v.s, leaf.value.s)

\* C16: a class-match leaf is false on an instance whose _id or _class
\* differs from a given id or className; otherwise true when it has no
\* value; otherwise, with a property, true exactly when that property's
\* value contains the value ignoring case; otherwise true exactly when some
\* non-internal property (or _class, _id) contains it. A query that is such
\* a leaf with a value returns an entry for exactly the instances it holds on.
ClassMatchBooleanSemantics ==
  IsClassLeaf(ast) =>
    \A k \in 1..Len(qClasses) :
      LET x == qClasses[k]
      IN /\ evaluateBoolean(ast, x, OutgoingEdges(x)) = ClassLeafHolds(ast.leaf, x)
         /\ (qPc = "done" /\ ast.leaf.value # Null) =>
              (HasEntry(x) <=> ClassLeafHolds(ast.leaf, x))

\* A leaf with property and value matched against a value in another case,
\* and an existence-only leaf on an instance without further properties.
WitnessCaseInsensitivePropertyMatch ==
  /\ qPc = "done" /\ IsClassLeaf(ast)
  /\ ast.leaf.property = Str(KName) /\ ast.leaf.value = Str(<<"B">>)
  /\ Len(qClasses) = 2
  /\ Prop(qClasses[1], KName) = Str(<<"b">>) /\ HasEntry(qClasses[1])
  /\ Prop(qClasses[2], KName) = Undefined /\ ~HasEntry(qClasses[2])

\* What C17 says a relation-match leaf evaluates to on x.
RelationLeafHolds(leaf, x) ==
  /\ FromPasses(leaf, x)
  /\ \E i \in 1..Len(qRelations) :
       /\ Prop(qRelations[i], KFrom) = Prop(x, KId)
       /\ EdgeSatisfies(leaf, qRelations[i])

OnlyRelationType(leaf) ==
  /\ leaf.relationType # Null /\ leaf.fromId = Null /\ leaf.fromClass = Null
  /\ leaf.qualifier = Null /\ leaf.value = Null

\* C17: a relation-match leaf with only relationType given is true for
\* exactly the instances with at least one outgoing edge of that type,
\* whatever its target and qualifiers; with a qualifier and/or a value it is
\* true exactly when one single outgoing edge passes the relation-type
\* filter, has the qualifier key, and its qualifier value (or, with no
\* qualifier, its target id) contains the value. A query that is such a leaf
\* returns an entry for exactly those instances.
RelationMatchBooleanSemantics ==
  IsRelationLeaf(ast) =>
    \A k \in 1..Len(qClasses) :
      LET x == qClasses[k]
      IN /\ OnlyRelationType(ast.leaf) =>
              (evaluateBoolean(ast, x, OutgoingEdges(x)) <=>
                 \E i \in 1..Len(qRelations) :
                   /\ Prop(qRelations[i], KFrom) = Prop(x, KId)
                   /\ Prop(qRelations[i], KRelation) = ast.leaf.relationType)
         /\ evaluateBoolean(ast, x, OutgoingEdges(x)) =
              RelationLeafHolds(ast.leaf, x)
         /\ qPc = "done" => (HasEntry(x) <=> RelationLeafHolds(ast.leaf, x))

\* Two edges of one instance that pass the type filter and the qualifier
\* filter separately, and no single edge that passes both: no match.
WitnessFiltersOnDifferentEdges ==
  /\ qPc = "done" /\ IsRelationLeaf(ast)
  /\ ast.leaf.relationType = Str(RelR) /\ ast.leaf.qualifier = Str(KRole)
  /\ ast.leaf.value = Str(<<"a">>) /\ ast.leaf.fromId = Null
  /\ qClasses # <<>> /\ Prop(qClasses[1], KId) = QA
  /\ Len(OutgoingEdges(qClasses[1])) = 2
  /\ \E i \in 1..2 : Prop(OutgoingEdges(qClasses[1])[i], KRelation) = Str(RelR)
  /\ \E i \in 1..2 :
       Prop(OutgoingEdges(qClasses[1])[i], KRole) = Str(<<"a">>)
  /\ ~HasEntry(qClasses[1])

(***************************************************************************)
(* The query parser (src/src/query/parser.js, lines 1-213)                 *)
(***************************************************************************)

\* hasWildcard(value)
hasWildcard(value) == \E i \in 1..Len(value) : value[i] \in {"*", "?"}

\* { type: 'MATCH', field, value, matchType }
Match(field, value) ==
  [type |-> "MATCH", kids |-> <<>>,
   match |-> [field |-> field, value |-> value,
              matchType |-> IF hasWildcard(value) THEN "wildcard"
                            ELSE "exact"]]
PAnd(left, right) == [type |-> "AND", kids |-> <<left, right>>, match |-> NoMatch]
POr(left, right) == [type |-> "OR", kids |-> <<left, right>>, match |-> NoMatch]
PNot(operand) == [type |-> "NOT", kids |-> <<operand>>, match |-> NoMatch]

\* What a parsing method does: it returns a node with the parser at pos, or
\* throws a SyntaxError whose message gives the position at (-1: none).
Returned(node, pos) == [threw |-> FALSE, node |-> node, pos |-> pos, at |-> -1]
Thrown(pos, at) == [threw |-> TRUE, node |-> NoNode, pos |-> pos, at |-> at]

\* this.tokens[this.position]; positions count from 0.
current(toks, pos) == toks[pos + 1]
peek(toks, pos) ==
  IF pos + 2 <= Len(toks) THEN toks[pos + 2]
  ELSE [type |-> "undefined", value |-> <<>>, position |-> -1]
check(toks, pos, type) == current(toks, pos).type = type
\* The position after advance(): it stays on EOF.
advance(toks, pos) == IF check(toks, pos, "EOF") THEN pos ELSE pos + 1

parseMatch(toks, pos) ==
  LET token == current(toks, pos)
  IN IF /\ token.type \in {"VALUE", "QUOTED_VALUE"}
        /\ peek(toks, pos).type = "COLON"
       THEN LET afterField == advance(toks, pos)
                afterColon == advance(toks, afterField)
                valueToken == current(toks, afterColon)
            IN Returned(Match(Str(token.value), valueToken.value),
                        advance(toks, afterColon))
     ELSE IF token.type \in {"VALUE", "QUOTED_VALUE"}
       THEN Returned(Match(Null, token.value), advance(toks, pos))
     ELSE Thrown(pos, token.position)

RECURSIVE parseExpression(_, _)
RECURSIVE parseTerm(_, _)
RECURSIVE parseFactor(_, _)
RECURSIVE ExpressionLoop(_, _, _)
RECURSIVE TermLoop(_, _, _)

\* Variant: the operand of NOT is a whole term.
parseFactorLooseNot(toks, pos) ==
  IF check(toks, pos, "NOT")
    THEN LET operand == parseTerm(toks, advance(toks, pos))
         IN IF operand.threw THEN operand
            ELSE Returned(PNot(operand.node), operand.pos)
  ELSE IF check(toks, pos, "LPAREN")
    THEN LET expr == parseExpression(toks, advance(toks, pos))
         IN IF expr.threw THEN expr
            ELSE IF check(toks, expr.pos, "RPAREN")
              THEN Returned(expr.node, advance(toks, expr.pos))
            ELSE Thrown(expr.pos, current(toks, expr.pos).position)
  ELSE parseMatch(toks, pos)

parseFactor(toks, pos) ==
  IF check(toks, pos, "NOT")
    THEN LET operand == parseFactor(toks, advance(toks, pos))
         IN IF operand.threw THEN operand
            ELSE Returned(PNot(operand.node), operand.pos)
  ELSE IF check(toks, pos, "LPAREN")
    THEN LET expr == parseExpression(toks, advance(toks, pos))
         IN IF expr.threw THEN expr
            ELSE IF check(toks, expr.pos, "RPAREN")
              THEN Returned(expr.node, advance(toks, expr.pos))
            ELSE Thrown(expr.pos, current(toks, expr.pos).position)
  ELSE parseMatch(toks, pos)

\* while (this.match('AND')) { right = parseFactor(); left = AND(left, right) }
TermLoop(toks, left, pos) ==
  IF check(toks, pos, "AND")
    THEN LET right == parseFactor(toks, advance(toks, pos))
         IN IF right.threw THEN right
            ELSE TermLoop(toks, PAnd(left, right.node), right.pos)
  ELSE Returned(left, pos)

parseTerm(toks, pos) ==
  LET left == parseFactor(toks, pos)
  IN IF left.threw THEN left ELSE TermLoop(toks, left.node, left.pos)

\* while (this.match('OR')) { right = parseTerm(); left = OR(left, right) }
ExpressionLoop(toks, left, pos) ==
  IF check(toks, pos, "OR")
    THEN LET right == parseTerm(toks, advance(toks, pos))
         IN IF right.threw THEN right
            ELSE ExpressionLoop(toks, POr(left, right.node), right.pos)
  ELSE Returned(left, pos)

parseExpression(toks, pos) ==
  LET left == parseTerm(toks, pos)
  IN IF left.threw THEN left ELSE ExpressionLoop(toks, left.node, left.pos)

\* Parser.parse, from position 0.
parse(toks) ==
  IF check(toks, 0, "EOF") THEN Thrown(0, -1)
  ELSE LET result == parseExpression(toks, 0)
       IN IF result.threw THEN result
          ELSE IF ~check(toks, result.pos, "EOF")
            THEN Thrown(result.pos, current(toks, result.pos).position)
          ELSE result

(***************************************************************************)
(* parse on bounded token streams                                          *)
(***************************************************************************)

MaxTokens == 4

TokenTypes ==
  {"VALUE", "QUOTED_VALUE", "COLON", "AND", "OR", "NOT", "LPAREN", "RPAREN"}

\* The value of the i-th token: a VALUE is the i-th letter, so that the
\* leaves of an AST tell which token they come from.
Letters == <<"a", "b", "c", "d", "e", "f", "g", "h", "i", "j">>
ValueOf(type, i) ==
  CASE type = "VALUE" -> <<Letters[i]>>
    [] type = "QUOTED_VALUE" -> <<"*">>
    [] type = "COLON" -> <<":">>
    [] type = "AND" -> <<"A", "N", "D">>
    [] type = "OR" -> <<"O", "R">>
    [] type = "NOT" -> <<"N", "O", "T">>
    [] type = "LPAREN" -> <<"(">>
    [] type = "RPAREN" -> <<")">>
    [] OTHER -> <<>>

\* The token stream of a sequence of token types, closed by EOF; the i-th
\* token starts at position 2 * (i - 1) of the query text.
TokensOf(types) ==
  [i \in 1..(Len(types) + 1) |->
     IF i <= Len(types) THEN Token(types[i], ValueOf(types[i], i), 2 * (i - 1))
     ELSE Token("EOF", <<>>, 2 * (i - 1))]

\* NOT a AND (b OR c), a OR b AND c, a AND b OR c, a AND b AND c,
\* a OR b OR c, NOT NOT a AND b, (a OR b) AND c
LongQueries ==
  {<<"NOT", "VALUE", "AND", "LPAREN", "VALUE", "OR", "VALUE", "RPAREN">>,
   <<"VALUE", "OR", "VALUE", "AND", "VALUE">>,
   <<"VALUE", "AND", "VALUE", "OR", "VALUE">>,
   <<"VALUE", "AND", "VALUE", "AND", "VALUE">>,
   <<"VALUE", "OR", "VALUE", "OR", "VALUE">>,
   <<"NOT", "NOT", "VALUE", "AND", "VALUE">>,
   <<"LPAREN", "VALUE", "OR", "VALUE", "RPAREN", "AND", "VALUE">>}

InitParse ==
  /\ pTokens \in {TokensOf(types) :
                    types \in SeqUpTo(TokenTypes, MaxTokens) \cup LongQueries}
  /\ pPosition = 0 /\ pResult = NoParse /\ pPc = "start"
  /\ ValidatorIdle /\ WalkIdle /\ LexIdle /\ StoreIdle /\ QueryIdle

\* parse(tokens): new Parser(tokens).parse()
Parse ==
  /\ pPc = "start"
  /\ LET result == parse(pTokens)
     IN /\ pResult' = [state |-> IF result.threw THEN "threw" ELSE "returned",
                       node |-> result.node, at |-> result.at]
        /\ pPosition' = result.pos
  /\ pPc' = "done"
  /\ UNCHANGED pTokens
  /\ UNCHANGED <<valVars, walkVars, lexVars, storeVars, queryVars>>

SpecParse == InitParse /\ [][Parse]_vars

(***************************************************************************)
(* Properties of parse                                                     *)
(***************************************************************************)

\* The bare-value leaf made from the i-th token of a stream.
LeafAt(i) == Match(Null, <<Letters[i]>>)

\* The values of the leaves of an AST, left to right.
RECURSIVE LeafValues(_)
LeafValues(n) ==
  CASE n.type \in {"AND", "OR"} -> LeafValues(n.kids[1]) \o LeafValues(n.kids[2])
    [] n.type = "NOT" -> LeafValues(n.kids[1])
    [] OTHER -> <<n.match.value>>

\* The shape of an AST of a query without parentheses: an OR is never the
\* operand of an AND or a NOT, an AND never the operand of a NOT, and the
\* right operand of an OR (AND) is never an OR (AND).
RECURSIVE PrecedenceShape(_)
PrecedenceShape(n) ==
  CASE n.type = "OR" ->
         /\ n.kids[2].type # "OR"
         /\ PrecedenceShape(n.kids[1]) /\ PrecedenceShape(n.kids[2])
    [] n.type = "AND" ->
         /\ n.kids[1].type # "OR" /\ n.kids[2].type \notin {"OR", "AND"}
         /\ PrecedenceShape(n.kids[1]) /\ PrecedenceShape(n.kids[2])
    [] n.type = "NOT" ->
         /\ n.kids[1].type \notin {"OR", "AND"}
         /\ PrecedenceShape(n.kids[1])
    [] OTHER -> TRUE

TypesOf(toks) == [i \in 1..(Len(toks) - 1) |-> toks[i].type]
ValuesIn(toks) ==
  LET vs == SelectSeq(toks, LAMBDA t : t.type \in {"VALUE", "QUOTED_VALUE"})
  IN [i \in 1..Len(vs) |-> vs[i].value]

\* C13: NOT binds tighter than AND and AND tighter than OR, AND and OR
\* associate to the left, and parentheses override: a query without
\* parentheses and colons that parses yields an AST of the precedence shape
\* with its values in token order; 'NOT a AND (b OR c)' parses to
\* AND(NOT(a), OR(b, c)), 'a OR b AND c' to OR(a, AND(b, c)), '(a OR b) AND c'
\* to AND(OR(a, b), c) and 'a AND b AND c' to AND(AND(a, b), c).
NotBindsTighterThanAndThanOr ==
  (pPc = "done") =>
    /\ (/\ pResult.state = "returned"
        /\ \A i \in 1..Len(pTokens) :
             pTokens[i].type \notin {"LPAREN", "RPAREN", "COLON"})
         => /\ PrecedenceShape(pResult.node)
            /\ LeafValues(pResult.node) = ValuesIn(pTokens)
    /\ TypesOf(pTokens) =
         <<"NOT", "VALUE", "AND", "LPAREN", "VALUE", "OR", "VALUE", "RPAREN">>
         => /\ pResult.state = "returned"
            /\ pResult.node =
                 PAnd(PNot(LeafAt(2)), POr(LeafAt(5), LeafAt(7)))
    /\ TypesOf(pTokens) = <<"VALUE", "OR", "VALUE", "AND", "VALUE">>
         => /\ pResult.state = "returned"
            /\ pResult.node = POr(LeafAt(1), PAnd(LeafAt(3), LeafAt(5)))
    /\ TypesOf(pTokens) =
         <<"LPAREN", "VALUE", "OR", "VALUE", "RPAREN", "AND", "VALUE">>
         => /\ pResult.state = "returned"
            /\ pResult.node = PAnd(POr(LeafAt(2), LeafAt(4)), LeafAt(7))
    /\ TypesOf(pTokens) = <<"VALUE", "AND", "VALUE", "AND", "VALUE">>
         => /\ pResult.state = "returned"
            /\ pResult.node = PAnd(PAnd(LeafAt(1), LeafAt(3)), LeafAt(5))

\* 'NOT a AND (b OR c)' has been parsed.
WitnessNotAndGroupParsed ==
  /\ pPc = "done" /\ pResult.state = "returned"
  /\ TypesOf(pTokens) =
       <<"NOT", "VALUE", "AND", "LPAREN", "VALUE", "OR", "VALUE", "RPAREN">>
  /\ pResult.node.type = "AND"

\* An AND, OR or NOT token with no operand after it, or an AND or OR token
\* with none before it.
OperatorWithoutOperand(toks) ==
  \E i \in 1..(Len(toks) - 1) :
    \/ /\ toks[i].type \in {"AND", "OR", "NOT"}
       /\ toks[i + 1].type \in {"EOF", "RPAREN", "AND", "OR"}
    \/ /\ toks[i].type \in {"AND", "OR"}
       /\ i = 1 \/ toks[i - 1].type \in {"LPAREN", "AND", "OR", "NOT", "COLON"}

\* More opening than closing parentheses.
MissingClosingParenthesis(toks) ==
  Cardinality({i \in 1..Len(toks) : toks[i].type = "LPAREN"})
    > Cardinality({i \in 1..Len(toks) : toks[i].type = "RPAREN"})

\* C14: parse returns an AST only with the parser on EOF, and never for an
\* empty stream, a stream with an unclosed parenthesis or a stream with an
\* operator that lacks an operand; when it throws on a stream that is not
\* empty, the error gives the position of a token of the stream (the error
\* for the empty stream names no position, which is not held against it).
ParseConsumesAllOrThrowsWithPosition ==
  (pPc = "done") =>
    /\ pResult.state \in {"returned", "threw"}
    /\ pResult.state = "returned" =>
         /\ pPosition = Len(pTokens) - 1
         /\ Len(pTokens) > 1
         /\ ~MissingClosingParenthesis(pTokens)
         /\ ~OperatorWithoutOperand(pTokens)
    /\ (pResult.state = "threw" /\ Len(pTokens) > 1) =>
         \E i \in 1..Len(pTokens) : pTokens[i].position = pResult.at

\* 'a:(' parses to the match of field a against the value '('.
WitnessParenthesisTakenAsValue ==
  /\ pPc = "done" /\ pResult.state = "returned"
  /\ TypesOf(pTokens) = <<"VALUE", "COLON", "LPAREN">>
  /\ pResult.node = Match(Str(<<"a">>), <<"(">>)

(***************************************************************************)
(* Properties of the lexer's keywords                                      *)
(***************************************************************************)

\* The spelling of a keyword token type.
SpellingOf(type) ==
  CASE type = "AND" -> <<"A", "N", "D">>
    [] type = "OR" -> <<"O", "R">>
    [] OTHER -> <<"N", "O", "T">>

\* c is the uppercase letter u or its lowercase form.
SameLetter(c, u) ==
  \/ c = u
  \/ <<u, c>> \in {<<"A", "a">>, <<"N", "n">>, <<"D", "d">>,
                    <<"O", "o">>, <<"R", "r">>, <<"T", "t">>}

SpelledInAnyCase(word, type) ==
  /\ Len(word) = Len(SpellingOf(type))
  /\ \A j \in 1..Len(word) : SameLetter(word[j], SpellingOf(type)[j])

\* C15 as stated: a token of type AND, OR or NOT is spelled exactly in
\* uppercase.
KeywordTokensSpelledInUppercase ==
  \A i \in 1..Len(tokens) :
    tokens[i].type \in {"AND", "OR", "NOT"} =>
      tokens[i].value = SpellingOf(tokens[i].type)

\* C15 amended: a token of type AND, OR or NOT is a word that spells the
\* keyword in any letter case, its value being the word as typed, and no
\* WORD token spells a keyword in any case.
KeywordTokensSpelledInAnyCase ==
  \A i \in 1..Len(tokens) :
    /\ tokens[i].type \in {"AND", "OR", "NOT"} =>
         SpelledInAnyCase(tokens[i].value, tokens[i].type)
    /\ tokens[i].type = "WORD" =>
         \A type \in {"AND", "OR", "NOT"} :
           ~SpelledInAnyCase(tokens[i].value, type)

\* 'oR' has been tokenized to an OR token and 'OR' too.
WitnessMixedCaseKeyword ==
  /\ lPc = "done" /\ input = <<"o", "R", " ", "O">>
  /\ tokens[1] = Token("OR", <<"o", "R">>, 0)
  /\ tokens[2] = Token("WORD", <<"O">>, 3)

(***************************************************************************)
(* search on the instances that validate accepts                           *)
(***************************************************************************)

MaxSearchInstances == 2

KComponents == <<"c">>

\* The root key the evaluator reads for a property name of the schema.
PropertyKey(name) == IF name = "name" THEN KName ELSE <<"?">>

SearchTexts == {<<"a">>, <<"x">>}

\* Instances of C with a name, one of C without components, one of D.
SearchInstances ==
  {Inst(id, "C", F1, <<Entry("naming", Block(<<Entry("name", StringVal(text))>>))>>) :
     id \in {IdA, IdB}, text \in SearchTexts}
  \cup {Inst(IdA, "C", F1, <<>>), Inst(IdB, "D", F2, <<>>)}

\* The class instance extractInstances builds from a document of the
\* storage: the root keys of the document, components included as the
\* object it is, then _namespace and _source.
AsLoaded(instance) ==
  <<[k |-> KClass, v |-> Str(ClassText(instance._class))],
    [k |-> KId, v |-> Str(instance._id)],
    [k |-> KComponents, v |-> Obj],
    [k |-> KSource, v |-> QA]>>

SearchLeaves ==
  {ClassMatch(id, class, property, value) :
     id \in {Null, QA}, class \in {Null, Str(<<"C">>)},
     property \in {Null, Str(KName)},
     value \in {Null, Str(<<"a">>), Str(<<"o">>), Str(<<"x">>)}}

\* The search command and the validate command on one loaded storage.
InitSearch ==
  /\ schema = WellFormedSchema("mtm")
  /\ instances \in SeqUpTo(SearchInstances, MaxSearchInstances)
  /\ relations = <<>>
  /\ rawDocuments = RawDocumentsOf(instances)
  /\ report = NoReport
  /\ ast \in SearchLeaves
  /\ qClasses = [i \in 1..Len(instances) |-> AsLoaded(instances[i])]
  /\ qRelations = <<>>
  /\ results = <<>> /\ qNext = 1 /\ qPc = "loop"
  /\ WalkIdle /\ LexIdle /\ StoreIdle /\ ParseIdle

SearchNext == Validate \/ FindStep \/ FindReturn

SpecSearch == InitSearch /\ [][SearchNext]_vars

\* The value is contained, whatever the case, in the text.
ContainsValue(text, value) == includes(toLowerCase(text), toLowerCase(value.s))

\* Some property stored inside the components of the instance (the named
\* one, or any when none is named) contains the value.
ValueInsideComponents(leaf, instance) ==
  \E c \in 1..Len(instance.components) :
    \E p \in 1..Len(instance.components[c].v.props) :
      LET property == instance.components[c].v.props[p]
      IN /\ leaf.property # Null => PropertyKey(property.k) = leaf.property.s
         /\ property.v.t = "string"
         /\ ContainsValue(property.v.s, leaf.value)

\* What C30 says a class-match leaf with a value evaluates to.
StatedClassMatch(leaf, instance) ==
  /\ leaf.id # Null => Str(instance._id) = leaf.id
  /\ leaf.className # Null => Str(ClassText(instance._class)) = leaf.className
  /\ \/ ValueInsideComponents(leaf, instance)
     \/ ContainsValue(instance._id, leaf.value)
     \/ ContainsValue(ClassText(instance._class), leaf.value)

\* C30: on instances that validate with zero errors a class-match leaf
\* with a value matches exactly the instances with a property inside
\* their components, or an _id or _class, that contains the value, and no
\* match names the components container as the property.
EvaluatorReadsWhatValidatorRequires ==
  (report.state = "returned" /\ report.errors = <<>> /\ ast.leaf.value # Null) =>
    /\ \A k \in 1..Len(qClasses) :
         evaluateBoolean(ast, qClasses[k], <<>>)
           <=> StatedClassMatch(ast.leaf, instances[k])
    /\ \A i \in 1..Len(results) :
         \A m \in 1..Len(results[i].matches) :
           results[i].matches[m].property # KComponents

\* The storage validates with zero errors, b of class C carries the name
\* "a" inside its components, and the search for the value a has returned
\* without an entry for it.
WitnessStoredNameNotSearched ==
  /\ report.state = "returned" /\ report.errors = <<>>
  /\ qPc = "done"
  /\ ast = ClassMatch(Null, Null, Null, Str(<<"a">>))
  /\ instances = <<Inst(IdB, "C", F1,
                        <<Entry("naming", Block(<<Entry("name", StringVal(<<"a">>))>>))>>)>>
  /\ ~HasEntry(qClasses[1])

====
